---- MODULE Spec2Model ----
(***************************************************************************)
(* A model of the persistent rope of shaia/Rope: the node heap (Leaf and   *)
(* Concat), leaf coalescing, the AVL and Fibonacci balancers, slicing, the *)
(* edit facade (Split, Insert, Delete), the line/column index, the         *)
(* thread-safe RopeHandle with its JSON decoding, and ParForEach.          *)
(*                                                                         *)
(* Nodes live in a heap (a sequence of records; a node is its index, as a  *)
(* Go pointer is its address).  Every operation takes the heap and returns *)
(* the heap it leaves behind together with its result, so that sharing and *)
(* pointer identity are those of the program.  A string is a sequence of   *)
(* byte values.  Where the code binds an intermediate result to a local    *)
(* and goes on with it, the model passes that result to a local operator   *)
(* holding the rest of the function body.                                  *)
(***************************************************************************)
EXTENDS Integers, Sequences, FiniteSets, TLC

VARIABLES
    heap,       \* the allocated nodes, by address
    balancer,   \* Builder.balancer: "avl" or "fib"
    x, y,       \* two ropes held by the client of the edit facade
    raw,        \* TRUE once the client has hand-built a node with NewConcat
    last,       \* the client's latest call: its operation, operands and result
    steps,      \* number of calls the client has made
    value,      \* RopeHandle.value: the root in the stored container
    mu,         \* RopeHandle.mu: 0 when free, else the goroutine holding it
    pc,         \* per writer goroutine: its position in Set / Apply
    call,       \* per writer goroutine: the call it is executing
    current,    \* per writer goroutine: Apply's local `current`
    newRoot,    \* per writer goroutine: Apply's local `newRoot` / Set's n
    done,       \* per writer goroutine: number of calls it has completed
    snap,       \* per reader goroutine: the node its last Snapshot() returned
    snapRec,    \* per reader goroutine: what that node looked like when taken
    stored,     \* the roots that NewHandle, Set or Apply have stored so far
    writes,     \* number of Set / Apply calls started on the handle
    failed,     \* per writer goroutine: calls that ended in an error or a panic
    parCall,    \* the ParForEach call in progress: its n and workers arguments
    ppc,        \* position of the goroutine that called ParForEach
    todo,       \* leaf strings EachLeaf has still to pass to its callback
    jobs,       \* the buffered channel `jobs`: the strings queued in it
    closed,     \* TRUE once close(jobs) has run
    wg,         \* the sync.WaitGroup counter
    wpc,        \* per worker goroutine: its position in the range loop
    got,        \* per worker goroutine: the string s it received
    calls       \* the arguments of the invocations of fn so far, in order

vars == <<heap, balancer, x, y, raw, last, steps, value, mu, pc, call,
          current, newRoot, done, snap, snapRec, stored, writes, failed,
          parCall, ppc, todo, jobs, closed, wg, wpc, got, calls>>

editVars   == <<balancer, x, y, raw, last, steps>>
handleVars == <<value, mu, pc, call, current, newRoot, done, snap, snapRec,
                stored, writes, failed>>
parVars    == <<parCall, ppc, todo, jobs, closed, wg, wpc, got, calls>>

----------------------------------------------------------------------------
(* Bytes and strings *)

NL == 10

Fill(n, c) == [i \in 1..n |-> c]

\* strings.Count(s, "\n")
CountNL(s) == Cardinality({i \in DOMAIN s : s[i] = NL})

Max(a, b) == IF a > b THEN a ELSE b

\* the one element of S.  Only({F(it) : it \in {e}}) is statement order:
\* e is computed first, then F runs on its value
Only(S) == CHOOSE v \in S : TRUE

----------------------------------------------------------------------------
(* Nodes *)

Nil == 0

IsLeaf(h, n)   == h[n].kind = "Leaf"
IsConcat(h, n) == h[n].kind = "Concat"

\* Leaf.Len / Concat.Len
NLen(h, n) == IF IsLeaf(h, n) THEN Len(h[n].val) ELSE h[n].length

\* Leaf.Depth / Concat.Depth
Depth(h, n) == IF IsLeaf(h, n) THEN 0 ELSE h[n].depth

\* Leaf.Lines / Concat.Lines
Lines(h, n) == h[n].lines

\* Leaf.String / Concat.String: full materialization
RECURSIVE String(_, _)
String(h, n) ==
    IF IsLeaf(h, n) THEN h[n].val
    ELSE String(h, h[n].Left) \o String(h, h[n].Right)

\* a freshly allocated node: the heap with it, and its address
Alloc(h, rec) == [h |-> Append(h, rec), n |-> Len(h) + 1]

\* NewLeaf (and rope.New, which only calls it)
NewLeaf(h, s) ==
    Alloc(h, [kind |-> "Leaf", val |-> s, lines |-> CountNL(s)])

\* NewConcat: the three aggregates are computed from the children
NewConcat(h, left, right) ==
    Alloc(h, [kind   |-> "Concat",
              Left   |-> left,
              Right  |-> right,
              length |-> NLen(h, left) + NLen(h, right),
              depth  |-> 1 + Max(Depth(h, left), Depth(h, right)),
              lines  |-> Lines(h, left) + Lines(h, right)])

MaxLeafMergeSize == 256

\* fault: the merge appends to the left leaf where it is, instead of
\* building a new leaf
TryMergeLeavesInPlace(h, left, right) ==
    IF NLen(h, left) + NLen(h, right) > MaxLeafMergeSize
    THEN [h |-> h, n |-> Nil, ok |-> FALSE]
    ELSE IF IsLeaf(h, left) /\ IsLeaf(h, right)
         THEN [h  |-> [h EXCEPT ![left] =
                          [kind  |-> "Leaf",
                           val   |-> h[left].val \o h[right].val,
                           lines |-> h[left].lines + h[right].lines]],
               n  |-> left,
               ok |-> TRUE]
         ELSE [h |-> h, n |-> Nil, ok |-> FALSE]

\* fault: the merged leaf keeps the left leaf's line count
TryMergeLeavesLeftLines(h, left, right) ==
    IF NLen(h, left) + NLen(h, right) > MaxLeafMergeSize
    THEN [h |-> h, n |-> Nil, ok |-> FALSE]
    ELSE IF IsLeaf(h, left) /\ IsLeaf(h, right)
         THEN LET m == Alloc(h, [kind  |-> "Leaf",
                                 val   |-> h[left].val \o h[right].val,
                                 lines |-> h[left].lines])
              IN  [h |-> m.h, n |-> m.n, ok |-> TRUE]
         ELSE [h |-> h, n |-> Nil, ok |-> FALSE]

\* TryMergeLeaves: [h, n, ok]
TryMergeLeaves(h, left, right) ==
    IF NLen(h, left) + NLen(h, right) > MaxLeafMergeSize
    THEN [h |-> h, n |-> Nil, ok |-> FALSE]
    ELSE IF IsLeaf(h, left) /\ IsLeaf(h, right)
         THEN LET m == Alloc(h, [kind  |-> "Leaf",
                                 val   |-> h[left].val \o h[right].val,
                                 lines |-> h[left].lines + h[right].lines])
              IN  [h |-> m.h, n |-> m.n, ok |-> TRUE]
         ELSE [h |-> h, n |-> Nil, ok |-> FALSE]

----------------------------------------------------------------------------
(* AVL balancer *)

\* fault: no rotation
balanceNever(h, l, r) == NewConcat(h, l, r)

\* fault: the rotation step without its double rotations
balanceSingle(h, l, r) ==
    LET dDiff == Depth(h, l) - Depth(h, r)
        RightOf(p, b)  == NewConcat(b.h, p, b.n)
        LeftOf(a, t)   == NewConcat(a.h, a.n, t)
    IN
    IF dDiff > 1 /\ IsConcat(h, l)
    THEN RightOf(h[l].Left, NewConcat(h, h[l].Right, r))
    ELSE IF dDiff < -1 /\ IsConcat(h, r)
    THEN LeftOf(NewConcat(h, l, h[r].Left), h[r].Right)
    ELSE NewConcat(h, l, r)

\* AVLBalancer.balance: the rotation step
balance(h, l, r) ==
    LET dDiff == Depth(h, l) - Depth(h, r)
        \* NewConcat(NewConcat(p, q), NewConcat(s, t))
        Pair2(a, s, t) == LET b == NewConcat(a.h, s, t)
                          IN  NewConcat(b.h, a.n, b.n)
        \* NewConcat(p, NewConcat(s, t))
        RightOf(p, b)  == NewConcat(b.h, p, b.n)
        \* NewConcat(NewConcat(p, q), t)
        LeftOf(a, t)   == NewConcat(a.h, a.n, t)
    IN
    IF dDiff > 1 THEN
        IF ~IsConcat(h, l) THEN NewConcat(h, l, r)
        ELSE LET lC == h[l] IN
             IF Depth(h, lC.Right) > Depth(h, lC.Left) /\ IsConcat(h, lC.Right)
             THEN \* Left-Right rotation
                  Pair2(NewConcat(h, lC.Left, h[lC.Right].Left),
                        h[lC.Right].Right, r)
             ELSE \* Single rotation (Right rotation)
                  RightOf(lC.Left, NewConcat(h, lC.Right, r))
    ELSE IF dDiff < -1 THEN
        IF ~IsConcat(h, r) THEN NewConcat(h, l, r)
        ELSE LET rC == h[r] IN
             IF Depth(h, rC.Left) > Depth(h, rC.Right) /\ IsConcat(h, rC.Left)
             THEN \* Right-Left rotation
                  Pair2(NewConcat(h, l, h[rC.Left].Left),
                        h[rC.Left].Right, rC.Right)
             ELSE \* Single rotation (Left rotation)
                  LeftOf(NewConcat(h, l, rC.Left), rC.Right)
    ELSE NewConcat(h, l, r)

\* AVLBalancer.Join
RECURSIVE AVLJoin(_, _, _)
AVLJoin(h, left, right) ==
    LET dLeft  == Depth(h, left)
        dRight == Depth(h, right)
        \* b.balance(lC.Left, balancedRight)
        LeftDeeper(balancedRight) ==
            balance(balancedRight.h, h[left].Left, balancedRight.n)
        \* b.balance(balancedLeft, rC.Right)
        RightDeeper(balancedLeft) ==
            balance(balancedLeft.h, balancedLeft.n, h[right].Right)
        merged == TryMergeLeaves(h, left, right)
        \* the return statement the code reaches, its conditions in order
        path ==
            IF NLen(h, left) = 0 THEN "right"
            ELSE IF NLen(h, right) = 0 THEN "left"
            ELSE IF merged.ok THEN "merged"
            ELSE IF dLeft > dRight + 1 THEN
                IF ~IsConcat(h, left) THEN "concat" ELSE "leftDeeper"
            ELSE IF dRight > dLeft + 1 THEN
                IF ~IsConcat(h, right) THEN "concat" ELSE "rightDeeper"
            ELSE "concat"
    IN
    CASE path = "right"  -> [h |-> h, n |-> right]
      [] path = "left"   -> [h |-> h, n |-> left]
      [] path = "merged" -> [h |-> merged.h, n |-> merged.n]
      [] path = "concat" -> NewConcat(h, left, right)
      [] path = "leftDeeper" ->
            Only({LeftDeeper(it) : it \in {AVLJoin(h, h[left].Right, right)}})
      [] path = "rightDeeper" ->
            Only({RightDeeper(it) : it \in {AVLJoin(h, left, h[right].Left)}})

\* fault: the two parts are put under a new Concat as they are
JoinNodesUnbalanced(h, left, right) == NewConcat(h, left, right)

\* JoinNodes: the default AVL strategy
JoinNodes(h, left, right) == AVLJoin(h, left, right)

----------------------------------------------------------------------------
(* Fibonacci balancer *)

\* the largest value of Go's int on a 32-bit build
MaxInt == 2147483647

\* init(): Fibonacci numbers until the next one overflows int
RECURSIVE FibTable(_)
FibTable(f) ==
    LET n == Len(f) IN
    IF f[n] > MaxInt - f[n - 1] THEN f
    ELSE FibTable(Append(f, f[n] + f[n - 1]))

\* fibs: fibs[i + 1] is the program's fibs[i]
fibs == FibTable(<<0, 1>>)

\* collectLeaves: the leaves in order, left to right
RECURSIVE collectLeaves(_, _)

\* fault: the right subtree's leaves are collected before the left's
collectLeavesRightFirst(h, n) ==
    IF IsLeaf(h, n) THEN <<n>>
    ELSE collectLeaves(h, h[n].Right) \o collectLeaves(h, h[n].Left)

collectLeaves(h, n) ==
    IF IsLeaf(h, n) THEN <<n>>
    ELSE collectLeaves(h, h[n].Left) \o collectLeaves(h, h[n].Right)

\* fault: the leaves are rebuilt as a chain, split after the first leaf
RECURSIVE buildChain(_, _)
buildChain(h, leaves) ==
    LET Both(right) == NewConcat(right.h, leaves[1], right.n)
    IN
    IF Len(leaves) = 0 THEN NewLeaf(h, <<>>)
    ELSE IF Len(leaves) = 1 THEN [h |-> h, n |-> leaves[1]]
    ELSE Only({Both(it) : it \in {buildChain(h, Tail(leaves))}})

\* buildBalanced
RECURSIVE buildBalanced(_, _)
buildBalanced(h, leaves) ==
    LET mid == Len(leaves) \div 2
        Right(left) ==
            LET Both(right) == NewConcat(right.h, left.n, right.n)
                rest == SubSeq(leaves, mid + 1, Len(leaves))
            IN  Only({Both(it) : it \in {buildBalanced(left.h, rest)}})
    IN
    IF Len(leaves) = 0 THEN NewLeaf(h, <<>>)
    ELSE IF Len(leaves) = 1 THEN [h |-> h, n |-> leaves[1]]
    ELSE Only({Right(it) : it \in {buildBalanced(h, SubSeq(leaves, 1, mid))}})

\* fault: the rebuild is skipped
rebalanceNever(h, n) == [h |-> h, n |-> n]

\* FibonacciBalancer.rebalance
rebalance(h, n) == buildBalanced(h, collectLeaves(h, n))

\* fault: no shortcut for an empty operand
FibJoinKeepsEmpty(h, left, right) ==
    LET Cheap(concat) ==
            LET d == Depth(concat.h, concat.n)
                l == NLen(concat.h, concat.n)
            IN  IF d + 2 >= Len(fibs) THEN rebalance(concat.h, concat.n)
                ELSE IF l < fibs[d + 3] THEN rebalance(concat.h, concat.n)
                ELSE concat
        Merged(m) == IF m.ok THEN [h |-> m.h, n |-> m.n]
                     ELSE Only({Cheap(it) : it \in {NewConcat(h, left, right)}})
    IN  Only({Merged(it) : it \in {TryMergeLeaves(h, left, right)}})

\* fault: every Join of two non-empty operands rebuilds
FibJoinEager(h, left, right) ==
    LET Cheap(concat) == rebalance(concat.h, concat.n)
        Merged(m) == IF m.ok THEN [h |-> m.h, n |-> m.n]
                     ELSE Only({Cheap(it) : it \in {NewConcat(h, left, right)}})
    IN
    IF NLen(h, left) = 0 THEN [h |-> h, n |-> right]
    ELSE IF NLen(h, right) = 0 THEN [h |-> h, n |-> left]
    ELSE Only({Merged(it) : it \in {TryMergeLeaves(h, left, right)}})

\* FibonacciBalancer.Join
FibJoin(h, left, right) ==
    LET Cheap(concat) ==
            LET d == Depth(concat.h, concat.n)
                l == NLen(concat.h, concat.n)
            IN  IF d + 2 >= Len(fibs) THEN rebalance(concat.h, concat.n)
                ELSE IF l < fibs[d + 3] THEN rebalance(concat.h, concat.n)
                ELSE concat
        Merged(m) == IF m.ok THEN [h |-> m.h, n |-> m.n]
                     ELSE Only({Cheap(it) : it \in {NewConcat(h, left, right)}})
    IN
    IF NLen(h, left) = 0 THEN [h |-> h, n |-> right]
    ELSE IF NLen(h, right) = 0 THEN [h |-> h, n |-> left]
    ELSE Only({Merged(it) : it \in {TryMergeLeaves(h, left, right)}})

----------------------------------------------------------------------------
(* Slicing *)

\* fault: the slice of a leaf stops one byte early
LeafSliceShort(h, n, start, end) ==
    IF start = 0 /\ end = Len(h[n].val) THEN [h |-> h, n |-> n]
    ELSE LET sub == SubSeq(h[n].val, start + 1, end - 1)
         IN  Alloc(h, [kind |-> "Leaf", val |-> sub, lines |-> CountNL(sub)])

\* fault: the slice of a leaf keeps the newline count of the whole leaf
LeafSliceStaleLines(h, n, start, end) ==
    IF start = 0 /\ end = Len(h[n].val) THEN [h |-> h, n |-> n]
    ELSE LET sub == SubSeq(h[n].val, start + 1, end)
         IN  Alloc(h, [kind |-> "Leaf", val |-> sub, lines |-> h[n].lines])

\* fault: the slice's newline count is also written to the leaf it is cut
\* from
LeafSliceInPlace(h, n, start, end) ==
    IF start = 0 /\ end = Len(h[n].val) THEN [h |-> h, n |-> n]
    ELSE LET sub == SubSeq(h[n].val, start + 1, end)
         IN  Alloc([h EXCEPT ![n].lines = CountNL(sub)],
                   [kind |-> "Leaf", val |-> sub, lines |-> CountNL(sub)])

\* Leaf.Slice
LeafSlice(h, n, start, end) ==
    IF start = 0 /\ end = Len(h[n].val) THEN [h |-> h, n |-> n]
    ELSE LET sub == SubSeq(h[n].val, start + 1, end)
         IN  Alloc(h, [kind |-> "Leaf", val |-> sub, lines |-> CountNL(sub)])

\* Node.Slice: Leaf.Slice or Concat.Slice
RECURSIVE Slice(_, _, _, _)
Slice(h, n, start, end) ==
    LET leftLen == NLen(h, h[n].Left)
        Spanning(l)  ==
            LET Both(r) == JoinNodes(r.h, l.n, r.n)
                rightEnd == end - leftLen
            IN  Only({Both(it) : it \in {Slice(l.h, h[n].Right, 0, rightEnd)}})
        \* the return statement the code reaches, its conditions in order
        path ==
            IF IsLeaf(h, n) THEN "leaf"
            ELSE IF start = 0 /\ end = h[n].length THEN "whole"
            ELSE IF end <= leftLen THEN "left"
            ELSE IF start >= leftLen THEN "right"
            ELSE "spanning"
    IN
    CASE path = "leaf"  -> LeafSlice(h, n, start, end)
      [] path = "whole" -> [h |-> h, n |-> n]
      [] path = "left"  -> Slice(h, h[n].Left, start, end)
      [] path = "right" -> Slice(h, h[n].Right, start - leftLen, end - leftLen)
      [] path = "spanning" ->
            Only({Spanning(it) : it \in {Slice(h, h[n].Left, start, leftLen)}})

----------------------------------------------------------------------------
(* Edit facade *)

Balancers == {"avl", "fib"}

\* fault: an empty operand is joined like any other
JoinNoShortcut(b, h, left, right) ==
    IF NLen(h, left) = 0 \/ NLen(h, right) = 0 THEN NewConcat(h, left, right)
    ELSE IF b = "avl" THEN AVLJoin(h, left, right) ELSE FibJoin(h, left, right)

\* Builder.Join: the configured balancer's Join
Join(b, h, left, right) ==
    IF b = "avl" THEN AVLJoin(h, left, right) ELSE FibJoin(h, left, right)

\* Split: [h, l, r]
Split(h, n, i) ==
    LET EmptyLeft(e)  == [h |-> e.h, l |-> e.n, r |-> n]
        EmptyRight(e) == [h |-> e.h, l |-> n, r |-> e.n]
        Right(l)      ==
            LET Both(r) == [h |-> r.h, l |-> l.n, r |-> r.n]
            IN  Only({Both(it) : it \in {Slice(l.h, n, i, NLen(h, n))}})
    IN
    IF i = 0 THEN EmptyLeft(NewLeaf(h, <<>>))
    ELSE IF i = NLen(h, n) THEN EmptyRight(NewLeaf(h, <<>>))
    ELSE Only({Right(it) : it \in {Slice(h, n, 0, i)}})

\* what Insert and Delete return: [h, n, panic, diag].  A call that panics
\* returns no node; diag holds the values the panic message is formatted
\* from, in the order of its verbs.
Returned(j)       == [h |-> j.h, n |-> j.n, panic |-> FALSE, diag |-> <<>>]
Panicked(h, diag) == [h |-> h, n |-> Nil, panic |-> TRUE, diag |-> diag]

\* fault: the inserted text always goes in front
InsertAtFront(b, h, n, i, text) ==
    LET With(inserted) == Returned(Join(b, inserted.h, inserted.n, n))
    IN  IF i < 0 \/ i > NLen(h, n)
        THEN Panicked(h, <<"index out of bounds", i, 0, NLen(h, n)>>)
        ELSE With(NewLeaf(h, text))

\* fault: the bounds check rejects the two ends of the rope as well
InsertInsideOnly(b, h, n, i, text) ==
    LET With(inserted) ==
            LET Inner(s) ==
                    LET Outer(j) == Returned(Join(b, j.h, j.n, s.r))
                    IN  Only({Outer(it) : it \in {Join(b, s.h, s.l, inserted.n)}})
            IN  Only({Inner(it) : it \in {Split(inserted.h, n, i)}})
    IN
    IF i <= 0 \/ i >= NLen(h, n)
    THEN Panicked(h, <<"index out of bounds", i, 0, NLen(h, n)>>)
    ELSE With(NewLeaf(h, text))

\* Builder.Insert
Insert(b, h, n, i, text) ==
    LET With(inserted) ==
            LET Inner(s) ==
                    LET Outer(j) == Returned(Join(b, j.h, j.n, s.r))
                    IN  Only({Outer(it) : it \in {Join(b, s.h, s.l, inserted.n)}})
            IN
            IF i = 0 THEN Returned(Join(b, inserted.h, inserted.n, n))
            ELSE IF i = NLen(h, n)
                 THEN Returned(Join(b, inserted.h, n, inserted.n))
            ELSE Only({Inner(it) : it \in {Split(inserted.h, n, i)}})
    IN
    IF i < 0 \/ i > NLen(h, n)
    THEN Panicked(h, <<"index out of bounds", i, 0, NLen(h, n)>>)
    ELSE With(NewLeaf(h, text))

\* fault: the second split is taken at end, not at end - start
DeleteSplitAtEnd(b, h, n, start, end) ==
    LET Rest(s1) ==
            LET Keep(s2) == Returned(Join(b, s2.h, s1.l, s2.r))
                cut      == IF end <= NLen(s1.h, s1.r) THEN end
                            ELSE NLen(s1.h, s1.r)
            IN  Only({Keep(it) : it \in {Split(s1.h, s1.r, cut)}})
    IN
    IF start < 0 \/ end > NLen(h, n) \/ start > end
    THEN Panicked(h, <<"index out of bounds or invalid range",
                       start, end, 0, NLen(h, n)>>)
    ELSE IF start = 0 /\ end = NLen(h, n) THEN Returned(NewLeaf(h, <<>>))
    ELSE Only({Rest(it) : it \in {Split(h, n, start)}})

\* Builder.Delete
Delete(b, h, n, start, end) ==
    LET Rest(s1) ==
            LET Keep(s2) == Returned(Join(b, s2.h, s1.l, s2.r))
            IN  Only({Keep(it) : it \in {Split(s1.h, s1.r, end - start)}})
    IN
    IF start < 0 \/ end > NLen(h, n) \/ start > end
    THEN Panicked(h, <<"index out of bounds or invalid range",
                       start, end, 0, NLen(h, n)>>)
    ELSE IF start = 0 /\ end = NLen(h, n) THEN Returned(NewLeaf(h, <<>>))
    ELSE Only({Rest(it) : it \in {Split(h, n, start)}})

----------------------------------------------------------------------------
(* Line/column index.  Offsets, rows and columns are 0-based as in the     *)
(* code; s[i + 1] is the byte the code calls s[i].                         *)

\* strings.LastIndex(s, "\n"): the 0-based index of the last newline, or -1
LastIndexNL(s) ==
    LET found == {i \in DOMAIN s : s[i] = NL}
    IN  IF found = {} THEN -1
        ELSE (CHOOSE i \in found : \A j \in found : j <= i) - 1

RECURSIVE lastLineLen(_, _)
\* fault: the last line of a Concat is looked for in its right child only
lastLineLenRightOnly(h, n) ==
    IF IsLeaf(h, n)
    THEN LET s == h[n].val
             lastIdx == LastIndexNL(s)
         IN  IF lastIdx = -1 THEN Len(s) ELSE Len(s) - (lastIdx + 1)
    ELSE lastLineLen(h, h[n].Right)

\* lastLineLen
lastLineLen(h, n) ==
    IF IsLeaf(h, n)
    THEN LET s == h[n].val
             lastIdx == LastIndexNL(s)
         IN  IF lastIdx = -1 THEN Len(s) ELSE Len(s) - (lastIdx + 1)
    ELSE LET rLines == Lines(h, h[n].Right)
         IN  IF rLines > 0 THEN lastLineLen(h, h[n].Right)
             ELSE lastLineLen(h, h[n].Left) + NLen(h, h[n].Right)

\* offsetToRowColRec: <<row, col>>
RECURSIVE offsetToRowColRec(_, _, _)
offsetToRowColRec(h, n, offset) ==
    IF IsLeaf(h, n)
    THEN LET sub == SubSeq(h[n].val, 1, offset)
             row == CountNL(sub)
             lastNewline == LastIndexNL(sub)
         IN  <<row, offset - (lastNewline + 1)>>
    ELSE LET leftLen == NLen(h, h[n].Left)
             Right(rc) ==
                 LET totalRow == Lines(h, h[n].Left) + rc[1]
                 IN  IF rc[1] = 0
                     THEN <<totalRow, rc[2] + lastLineLen(h, h[n].Left)>>
                     ELSE <<totalRow, rc[2]>>
         IN  IF offset < leftLen THEN offsetToRowColRec(h, h[n].Left, offset)
             ELSE Only({Right(it) : it \in
                          {offsetToRowColRec(h, h[n].Right, offset - leftLen)}})

\* fault: an offset past the end is taken for the end
OffsetToRowColClamped(h, n, offset) ==
    IF n = Nil \/ offset < 0 THEN <<-1, -1>>
    ELSE IF offset > NLen(h, n) THEN offsetToRowColRec(h, n, NLen(h, n))
    ELSE offsetToRowColRec(h, n, offset)

\* OffsetToRowCol: <<row, col>>
OffsetToRowCol(h, n, offset) ==
    IF n = Nil \/ offset < 0 THEN <<-1, -1>>
    ELSE IF offset > NLen(h, n) THEN <<-1, -1>>
    ELSE offsetToRowColRec(h, n, offset)

\* the width of the rune that `for i, r := range s` decodes at byte i: the
\* texts of the model hold one-byte runes and two-byte runes (a lead byte
\* 0xC2..0xDF and a continuation byte 0x80..0xBF); a byte that starts no
\* valid encoding is a rune of width 1
RuneLen(s, i) ==
    IF /\ s[i + 1] \in 194..223
       /\ i + 1 < Len(s)
       /\ s[i + 2] \in 128..191
    THEN 2 ELSE 1

\* the byte indices where `for i, r := range s` starts a rune
RuneStarts(s) ==
    {i \in 0..(Len(s) - 1) : i = 0 \/ RuneLen(s, i - 1) = 1}

\* fault: the column is added to the start of the row without a look at
\* where the row ends
leafRowColToOffsetUnchecked(s, row, col) ==
    LET newlines == {k \in DOMAIN s : s[k] = NL}
        start == IF row = 0 THEN 0
                 ELSE CHOOSE k \in newlines :
                         Cardinality({m \in newlines : m <= k}) = row
    IN  IF row > Cardinality(newlines) \/ start + col > Len(s) THEN -1
        ELSE start + col

\* the Leaf case of rowColToOffsetRec.  At the rune starting at byte i the
\* loop has currentLine = the newlines before i and offset = the index
\* after the last of them; it returns i when currentLine = row and
\* i - offset = col, and -1 when the rune is a newline that moves
\* currentLine past row.  The result is decided by the first rune at which
\* the loop returns, or by the check after the loop when it returns at none.
leafRowColToOffset(s, row, col) ==
    LET Scan(newlines) ==
            LET currentLine(i) == Cardinality({k \in newlines : k <= i})
                offset(i) ==
                    IF currentLine(i) = 0 THEN 0
                    ELSE CHOOSE k \in newlines :
                            k <= i /\ \A j \in newlines : j <= i => j <= k
                Found(i)  == currentLine(i) = row /\ i - offset(i) = col
                Passed(i) == s[i + 1] = NL /\ currentLine(i) + 1 > row
                Decide(returns) ==
                    IF returns = {}
                    THEN IF Found(Len(s)) THEN Len(s) ELSE -1
                    ELSE IF Found(CHOOSE i \in returns :
                                     \A j \in returns : i <= j)
                         THEN CHOOSE i \in returns : \A j \in returns : i <= j
                         ELSE -1
            IN  Decide({i \in RuneStarts(s) : Found(i) \/ Passed(i)})
    IN  Scan({k \in DOMAIN s : s[k] = NL})

\* rowColToOffsetRec: at a Concat the code descends into the left child for
\* row <= leftLines and has only a placeholder for the right child
RECURSIVE rowColToOffsetRec(_, _, _, _)
rowColToOffsetRec(h, n, row, col) ==
    IF IsLeaf(h, n) THEN leafRowColToOffset(h[n].val, row, col)
    ELSE LET leftLines == Lines(h, h[n].Left)
         IN  IF row < leftLines
             THEN rowColToOffsetRec(h, h[n].Left, row, col)
             ELSE IF row = leftLines
             THEN rowColToOffsetRec(h, h[n].Left, row, col)
             ELSE -1

\* RowColToOffset
RowColToOffset(h, n, row, col) ==
    IF n = Nil THEN -1
    ELSE IF row < 0 \/ col < 0 THEN -1
    ELSE IF row > Lines(h, n) THEN -1
    ELSE rowColToOffsetRec(h, n, row, col)

----------------------------------------------------------------------------
(* The client of the edit facade: a program that holds two ropes x and y,  *)
(* built from leaves, and keeps calling the public operations on them.     *)

MaxSteps    == 2    \* calls the client makes after its ropes are built
SeedLeaves  == 3    \* the client's ropes start from up to this many big leaves
SeedAppends == 11   \* small appends behind the long rope the client may start from

TxtEmpty == <<>>
TxtSmall == <<97, NL>>
TxtBig   == Fill(128, 99) \o <<NL>>
TxtBase  == Fill(255, 100)

Texts == {TxtEmpty, TxtSmall, TxtBig}

\* r := New(ts[1]); for each further t: r = Join(r, New(t))
RECURSIVE Build(_, _, _, _)
Build(b, h, ts, k) ==
    LET Next1(r) ==
            LET Joined(t) == Join(b, t.h, r.n, t.n)
            IN  Only({Joined(it) : it \in {NewLeaf(r.h, ts[k])}})
    IN
    IF k = 1 THEN NewLeaf(h, ts[1])
    ELSE Only({Next1(it) : it \in {Build(b, h, ts, k - 1)}})

SeedTexts ==
    {<<TxtEmpty>>, <<TxtSmall>>}
    \cup {Fill(k, TxtBig) : k \in 1..SeedLeaves}
    \cup {<<TxtBase>> \o Fill(SeedAppends, TxtSmall)}

\* the root's child boundary, or the middle of a leaf
Mid(h, n) == IF IsConcat(h, n) THEN NLen(h, h[n].Left) ELSE NLen(h, n) \div 2

\* the positions the client cuts a rope at: both ends, inside the first
\* leaf, and the middle
Cuts(h, n) == {0, 1, Mid(h, n), NLen(h, n)} \cap 0..NLen(h, n)

\* the ranges the client slices and deletes: everything, nothing, all but
\* the first and last byte, and from the middle on
Ranges(h, n) ==
    {r \in {<<0, NLen(h, n)>>, <<1, 1>>, <<1, NLen(h, n) - 1>>,
            <<Mid(h, n), NLen(h, n)>>} :
        0 <= r[1] /\ r[1] <= r[2] /\ r[2] <= NLen(h, n)}

Called(op, a, b, i, j, res, res2) ==
    [op |-> op, a |-> a, b |-> b, i |-> i, j |-> j, res |-> res, res2 |-> res2]

Runners         == 2    \* writer goroutines
WritesPerRunner == 2    \* Apply calls of each writer in the append scenario
MaxWrites       == 2    \* Set / Apply calls in the mixed scenario

Writers == 1..Runners
Readers == {1}

\* a writer that has made no call yet, a reader that has taken no snapshot
NoCall     == [op |-> "none", text |-> <<>>]
NoSnapshot == [tree |-> [node |-> [kind |-> "none"]], stores |-> 0,
               holder |-> 0, at |-> "none"]

\* no ParForEach call has been made
ParIdle ==
    /\ parCall = [n |-> Nil, workers |-> 0]
    /\ ppc = "idle"
    /\ todo = <<>> /\ jobs = <<>> /\ closed = FALSE /\ wg = 0
    /\ wpc = <<>> /\ got = <<>> /\ calls = <<>>

HandleIdle ==
    /\ value = Nil /\ mu = 0
    /\ pc = [w \in Writers |-> "idle"]
    /\ call = [w \in Writers |-> NoCall]
    /\ current = [w \in Writers |-> Nil]
    /\ newRoot = [w \in Writers |-> Nil]
    /\ done = [w \in Writers |-> 0]
    /\ snap = [r \in Readers |-> Nil]
    /\ snapRec = [r \in Readers |-> NoSnapshot]
    /\ stored = {}
    /\ writes = 0
    /\ failed = [w \in Writers |-> 0]
    /\ ParIdle

\* the client starts with x built from leaves by Join, and y a non-empty leaf
InitEdit ==
    /\ balancer \in Balancers
    /\ \E ts \in SeedTexts, t \in Texts \ {TxtEmpty} :
          LET Held(bx, by) == heap = by.h /\ x = bx.n /\ y = by.n
              Second(bx)   == Held(bx, NewLeaf(bx.h, t))
          IN  Second(Build(balancer, <<>>, ts, Len(ts)))
    /\ raw = FALSE
    /\ last = Called("Init", Nil, Nil, 0, 0, Nil, Nil)
    /\ steps = 0
    /\ HandleIdle

\* every call of the client counts, and leaves the handle alone
Step ==
    /\ steps < MaxSteps
    /\ steps' = steps + 1
    /\ UNCHANGED <<balancer, handleVars, parVars>>

\* y = New(t)
DoNew(t) ==
    LET Got(r) == /\ heap' = r.h /\ y' = r.n
                  /\ last' = Called("New", Nil, Nil, 0, 0, r.n, Nil)
    IN  Step /\ Got(NewLeaf(heap, t)) /\ UNCHANGED <<x, raw>>

\* x = builder.Join(x, y)
DoJoin ==
    LET Got(r) == /\ heap' = r.h /\ x' = r.n
                  /\ last' = Called("Join", x, y, 0, 0, r.n, Nil)
    IN  Step /\ Got(Join(balancer, heap, x, y)) /\ UNCHANGED <<y, raw>>

\* x = builder.Join(y, x)
DoJoinFront ==
    LET Got(r) == /\ heap' = r.h /\ x' = r.n
                  /\ last' = Called("Join", y, x, 0, 0, r.n, Nil)
    IN  Step /\ Got(Join(balancer, heap, y, x)) /\ UNCHANGED <<y, raw>>

\* x, y = Split(x, i)
DoSplit(i) ==
    LET Got(r) == /\ heap' = r.h /\ x' = r.l /\ y' = r.r
                  /\ last' = Called("Split", x, Nil, i, 0, r.l, r.r)
    IN  Step /\ Got(Split(heap, x, i)) /\ UNCHANGED raw

\* y = x.Slice(s, e)
DoSlice(s, e) ==
    LET Got(r) == /\ heap' = r.h /\ y' = r.n
                  /\ last' = Called("Slice", x, Nil, s, e, r.n, Nil)
    IN  Step /\ Got(Slice(heap, x, s, e)) /\ UNCHANGED <<x, raw>>

\* x = builder.Insert(x, i, y.String())
DoInsert(i) ==
    LET Got(r) == /\ ~r.panic
                  /\ heap' = r.h /\ x' = r.n
                  /\ last' = Called("Insert", x, y, i, 0, r.n, Nil)
    IN  /\ Step
        /\ Got(Insert(balancer, heap, x, i, String(heap, y)))
        /\ UNCHANGED <<y, raw>>

\* x = builder.Delete(x, s, e)
DoDelete(s, e) ==
    LET Got(r) == /\ ~r.panic
                  /\ heap' = r.h /\ x' = r.n
                  /\ last' = Called("Delete", x, Nil, s, e, r.n, Nil)
    IN  Step /\ Got(Delete(balancer, heap, x, s, e)) /\ UNCHANGED <<y, raw>>

\* x = core.NewConcat(x, y): a hand-built node
DoNewConcat ==
    LET Got(r) == /\ heap' = r.h /\ x' = r.n
                  /\ last' = Called("NewConcat", x, y, 0, 0, r.n, Nil)
    IN  Step /\ Got(NewConcat(heap, x, y)) /\ raw' = TRUE /\ UNCHANGED y

NextEdit ==
    \/ \E t \in Texts : DoNew(t)
    \/ DoJoin
    \/ DoJoinFront
    \/ \E i \in Cuts(heap, x) : DoSplit(i)
    \/ \E r \in Ranges(heap, x) : DoSlice(r[1], r[2])
    \/ \E i \in Cuts(heap, x) : DoInsert(i)
    \/ \E r \in Ranges(heap, x) : DoDelete(r[1], r[2])
    \/ DoNewConcat

SpecEdit == InitEdit /\ [][NextEdit]_vars

----------------------------------------------------------------------------
(* The client of Node.Slice: it holds a rope x, built by Join or by hand   *)
(* with NewConcat, and takes slices of it between the positions next to    *)
(* its ends and next to the root's child boundary.                         *)

SliceLeaves == 5    \* the sliced rope starts from up to this many big leaves

SliceSeeds ==
    {<<TxtSmall>>}
    \cup {Fill(k, TxtBig) : k \in 1..SliceLeaves}
    \cup {<<TxtBase>> \o Fill(SeedAppends, TxtSmall)}

\* x is built from leaves by Join, y is a non-empty leaf
InitSlice ==
    /\ balancer \in Balancers
    /\ \E ts \in SliceSeeds, t \in Texts \ {TxtEmpty} :
          LET Held2(bx, by) == heap = by.h /\ x = bx.n /\ y = by.n
              Second(bx)    == Held2(bx, NewLeaf(bx.h, t))
          IN  Second(Build(balancer, <<>>, ts, Len(ts)))
    /\ raw = FALSE
    /\ last = Called("Init", Nil, Nil, 0, 0, Nil, Nil)
    /\ steps = 0
    /\ HandleIdle

SlicePoints(h, n) ==
    {0, 1, Mid(h, n) - 1, Mid(h, n), Mid(h, n) + 1, NLen(h, n)}
        \cap 0..NLen(h, n)

SliceRanges(h, n) ==
    {r \in SlicePoints(h, n) \X SlicePoints(h, n) : r[1] <= r[2]}

NextSlice ==
    \/ DoJoin
    \/ DoNewConcat
    \/ \E r \in SliceRanges(heap, x) : DoSlice(r[1], r[2])

SpecSlice == InitSlice /\ [][NextSlice]_vars

----------------------------------------------------------------------------
(* The caller of Insert and Delete that does not check its arguments: it   *)
(* passes positions of the rope and values next to its ends that are not.  *)
(* A call that panics returns nothing, and the panic ends the program.     *)

AnyCuts(h, n) == Cuts(h, n) \cup {-1, NLen(h, n) + 1}

AnyRanges(h, n) ==
    Ranges(h, n)
    \cup {<<-1, 0>>, <<0, NLen(h, n) + 1>>, <<1, 0>>, <<-1, NLen(h, n) + 1>>}

\* builder.Insert(x, i, y.String()) panics
PanicInsert(i) ==
    LET Got(r) == /\ r.panic
                  /\ heap' = r.h
                  /\ last' = Called("Insert", x, y, i, 0, r.n, r.diag)
    IN  /\ steps < MaxSteps
        /\ steps' = MaxSteps
        /\ Got(Insert(balancer, heap, x, i, String(heap, y)))
        /\ UNCHANGED <<balancer, x, y, raw, handleVars, parVars>>

\* builder.Delete(x, s, e) panics
PanicDelete(s, e) ==
    LET Got(r) == /\ r.panic
                  /\ heap' = r.h
                  /\ last' = Called("Delete", x, Nil, s, e, r.n, r.diag)
    IN  /\ steps < MaxSteps
        /\ steps' = MaxSteps
        /\ Got(Delete(balancer, heap, x, s, e))
        /\ UNCHANGED <<balancer, x, y, raw, handleVars, parVars>>

NextCall ==
    \/ \E i \in AnyCuts(heap, x) : DoInsert(i)
    \/ \E i \in AnyCuts(heap, x) : PanicInsert(i)
    \/ \E r \in AnyRanges(heap, x) : DoDelete(r[1], r[2])
    \/ \E r \in AnyRanges(heap, x) : PanicDelete(r[1], r[2])

SpecCall == InitEdit /\ [][NextCall]_vars

----------------------------------------------------------------------------
(* The client of the line/column index: it builds a rope x in up to        *)
(* MaxSteps calls, by Join or by hand with NewConcat, then asks one        *)
(* conversion about it (or about the nil Node) and ends.                   *)

TxtLine == <<98>>
TxtLong == Fill(129, 100)
TxtRune == <<195, 169, NL, 97>>

IndexTexts == {TxtEmpty, TxtSmall, TxtLine, TxtBig}

IndexSeeds ==
    {<<TxtSmall, TxtLine, TxtSmall>>, <<TxtBig, TxtBig, TxtBig>>,
     <<TxtLong, TxtLong, TxtSmall>>, <<TxtRune>>, <<TxtEmpty>>}

InitIndex ==
    /\ balancer \in Balancers
    /\ \E ts \in IndexSeeds, t \in IndexTexts :
          LET Held2(bx, by) == heap = by.h /\ x = bx.n /\ y = by.n
              Second(bx)    == Held2(bx, NewLeaf(bx.h, t))
          IN  Second(Build(balancer, <<>>, ts, Len(ts)))
    /\ raw = FALSE
    /\ last = Called("Init", Nil, Nil, 0, 0, Nil, Nil)
    /\ steps = 0
    /\ HandleIdle

\* in the text s: the number of newline bytes before offset o, and the
\* distance of o from the byte after the last of them
RowOf(s, o) == CountNL(SubSeq(s, 1, o))
ColOf(s, o) == o - (LastIndexNL(SubSeq(s, 1, o)) + 1)

\* in the text s: the offset where the row-th line starts, and the number
\* of bytes of that line before its newline or the end of the text
LineStart(s, row) ==
    LET found == {i \in DOMAIN s : s[i] = NL}
    IN  IF row = 0 THEN 0
        ELSE CHOOSE i \in found : Cardinality({j \in found : j <= i}) = row

LineLen(s, row) ==
    LET found == {i \in DOMAIN s : s[i] = NL}
        end   == IF row = Cardinality(found) THEN Len(s)
                 ELSE (CHOOSE i \in found :
                          Cardinality({j \in found : j <= i}) = row + 1) - 1
    IN  end - LineStart(s, row)

\* the offsets where a leaf of n starts or ends
RECURSIVE Boundaries(_, _)
Boundaries(h, n) ==
    IF IsLeaf(h, n) THEN {0, NLen(h, n)}
    ELSE Boundaries(h, h[n].Left)
         \cup {NLen(h, h[n].Left) + b : b \in Boundaries(h, h[n].Right)}

\* the offsets the client asks about: the ends of the rope, of its leaves
\* and of its lines, and the offsets next to them, one before the start
\* and one past the end included
OffsetsAround(marks, len) ==
    {m + d : m \in marks, d \in {-1, 0, 1}} \cap (-1)..(len + 1)

NewlinesOf(s) == {i \in DOMAIN s : s[i] = NL}

IndexOffsets(h, n) ==
    OffsetsAround(Boundaries(h, n) \cup NewlinesOf(String(h, n)), NLen(h, n))

\* the rows and columns the client asks about: those of the offsets above,
\* one column past the end of every line, a negative row, a negative
\* column and one row past the last
RowColsOf(s, offsets) ==
    {<<RowOf(s, o), ColOf(s, o)>> : o \in offsets \cap 0..Len(s)}
    \cup {<<row, LineLen(s, row) + 1>> : row \in 0..CountNL(s)}
    \cup {<<-1, 0>>, <<0, -1>>, <<CountNL(s) + 1, 0>>}

IndexRowCols(h, n) == RowColsOf(String(h, n), IndexOffsets(h, n))

\* the one conversion the client asks, after which it ends
Ask ==
    /\ steps <= MaxSteps
    /\ steps' = MaxSteps + 1
    /\ UNCHANGED <<heap, balancer, x, y, raw, handleVars, parVars>>

\* row, col := OffsetToRowCol(n, o)
DoOffsetToRowCol(n, o) ==
    LET Got(rc) == last' = Called("OffsetToRowCol", n, Nil, o, 0, rc[1], rc[2])
    IN  Ask /\ Got(OffsetToRowCol(heap, n, o))

\* off := RowColToOffset(n, row, col)
DoRowColToOffset(n, row, col) ==
    LET Got(off) == last' = Called("RowColToOffset", n, Nil, row, col, off, Nil)
    IN  Ask /\ Got(RowColToOffset(heap, n, row, col))

NextIndex ==
    \/ DoJoin
    \/ DoJoinFront
    \/ DoNewConcat
    \/ \E o \in IndexOffsets(heap, x) : DoOffsetToRowCol(x, o)
    \/ \E o \in {-1, 0, 1} : DoOffsetToRowCol(Nil, o)
    \/ \E rc \in IndexRowCols(heap, x) : DoRowColToOffset(x, rc[1], rc[2])
    \/ \E rc \in {<<0, 0>>, <<1, 1>>} : DoRowColToOffset(Nil, rc[1], rc[2])

SpecIndex == InitIndex /\ [][NextIndex]_vars

----------------------------------------------------------------------------
(* Edit facade: properties *)

\* the node n and every node below it
RECURSIVE Nodes(_, _)
Nodes(h, n) ==
    IF IsLeaf(h, n) THEN {n}
    ELSE {n} \cup Nodes(h, h[n].Left) \cup Nodes(h, h[n].Right)

\* every node of the two ropes the client holds
Held == Nodes(heap, x) \cup Nodes(heap, y)

\* the client's ropes were built by the facade alone, from leaves
Produced == ~raw

\* the latest call was a Join that returned a new Concat which is not
\* NewConcat(left, right): the tree was restructured
Restructured ==
    /\ last.op = "Join"
    /\ last.res \notin {last.a, last.b}
    /\ IsConcat(heap, last.res)
    /\ heap[last.res].Left # last.a \/ heap[last.res].Right # last.b

\* C4: Join preserves content, for both balancers and on every path: the
\* result of the client's latest Join materializes to its left operand's
\* content followed by its right operand's, and so would the result of
\* either balancer's Join on the two ropes the client holds now, in either
\* order (the ropes may be hand-built and unbalanced).
C4_JoinKeepsContent ==
    /\ last.op = "Join" =>
          String(heap, last.res) = String(heap, last.a) \o String(heap, last.b)
    /\ \A b \in Balancers : \A p \in {<<x, y>>, <<y, x>>} :
          \A j \in {Join(b, heap, p[1], p[2])} :
              String(j.h, j.n) = String(heap, p[1]) \o String(heap, p[2])

\* C4 happens: an AVL Join ended in a double rotation: the root and both
\* its children are new Concat nodes
C4_DoubleRotation ==
    /\ balancer = "avl" /\ Produced /\ Restructured
    /\ IsConcat(heap, heap[last.res].Left)
    /\ IsConcat(heap, heap[last.res].Right)
    /\ heap[last.res].Left > last.a /\ heap[last.res].Left > last.b
    /\ heap[last.res].Right > last.a /\ heap[last.res].Right > last.b

\* C5: in every tree produced from leaves by the default (AVL) operations,
\* every Concat has children whose depths differ by at most one.
C5_AVLBalanced ==
    (balancer = "avl" /\ Produced) =>
        \A n \in Held :
            IsConcat(heap, n) =>
                /\ Depth(heap, heap[n].Left) - Depth(heap, heap[n].Right) <= 1
                /\ Depth(heap, heap[n].Right) - Depth(heap, heap[n].Left) <= 1

\* C5 happens: an AVL operation on a tree of depth two or more had to
\* restructure it
C5_Rebalanced ==
    /\ balancer = "avl" /\ Produced /\ Restructured
    /\ Depth(heap, last.res) >= 2
    /\ Depth(heap, last.a) # Depth(heap, last.b)

\* the Fibonacci bound of a node: length >= fib(depth + 2)
FibBound(h, n) == NLen(h, n) >= fibs[Depth(h, n) + 3]

C7_AdjacentLeavesMerged ==
    (Produced /\ last.op = "Join") =>
        LET leaves == collectLeaves(heap, last.res) IN
        \A k \in 1..(Len(leaves) - 1) :
            NLen(heap, leaves[k]) + NLen(heap, leaves[k + 1]) > MaxLeafMergeSize

\* C8: the cached aggregates of every node of the client's ropes are exact:
\* Len is the number of bytes of String, Lines the number of newline bytes
\* in it, Depth 0 for a Leaf and one more than the deeper child for a Concat.
C8_AggregatesExact ==
    \A n \in Held :
        /\ \A content \in {String(heap, n)} :
              /\ NLen(heap, n) = Len(content)
              /\ Lines(heap, n) = CountNL(content)
        /\ IsLeaf(heap, n) => Depth(heap, n) = 0
        /\ IsConcat(heap, n) =>
              Depth(heap, n) =
                  1 + Max(Depth(heap, heap[n].Left), Depth(heap, heap[n].Right))

\* C8 happens: a Join merged two leaves that both hold newlines into a new
\* leaf, whose line count is the sum of theirs
C8_MergedLines ==
    /\ last.op = "Join"
    /\ IsLeaf(heap, last.res) /\ last.res \notin {last.a, last.b}
    /\ Lines(heap, last.a) > 0 /\ Lines(heap, last.b) > 0
    /\ Lines(heap, last.res) = Lines(heap, last.a) + Lines(heap, last.b)

\* C9: no Concat of a rope the facade produced, from leaves that may be
\* empty and with inserted text that may be empty, has a zero-length child.
C9_NoEmptyChild ==
    Produced =>
        \A n \in Held :
            IsConcat(heap, n) =>
                NLen(heap, heap[n].Left) > 0 /\ NLen(heap, heap[n].Right) > 0

\* C9 happens: a Concat rope was joined with an empty leaf, or had the
\* empty text inserted, and came back as it was
C9_EmptyCollapsed ==
    /\ Produced
    /\ last.op \in {"Join", "Insert"}
    /\ NLen(heap, last.b) = 0
    /\ IsConcat(heap, last.a)
    /\ last.res = last.a

\* C10: split / join round trip.  For the rope x the client holds and every
\* cut i, Join(x.Slice(0, i), x.Slice(i, x.Len())) materializes to x's
\* content, and so does the Join of the pair that Split(x, i) returns; the
\* halves of the client's latest Split do too.
C10_SplitJoinRoundTrip ==
    /\ last.op = "Split" =>
          String(heap, last.res) \o String(heap, last.res2)
              = String(heap, last.a)
    /\ \A content \in {String(heap, x)} : \A i \in Cuts(heap, x) :
          /\ \A l \in {Slice(heap, x, 0, i)} :
             \A r \in {Slice(l.h, x, i, NLen(heap, x))} :
             \A j \in {Join(balancer, r.h, l.n, r.n)} :
                 String(j.h, j.n) = content
          /\ \A s \in {Split(heap, x, i)} :
             \A j \in {Join(balancer, s.h, s.l, s.r)} :
                 String(j.h, j.n) = content

\* C10 happens: the client split a Concat rope strictly inside its first
\* leaf, which cut through every level of the tree, into two non-empty
\* halves
C10_SplitInside ==
    /\ last.op = "Split"
    /\ IsConcat(heap, last.a)
    /\ last.i = 1
    /\ NLen(heap, last.res) = 1
    /\ NLen(heap, last.res2) = NLen(heap, last.a) - 1
    /\ String(heap, last.res) \o String(heap, last.res2) = String(heap, last.a)

\* C12: Insert(n, i, text) materializes to n's content up to i, then text,
\* then the rest of n's content, and its length is n.Len() + len(text):
\* at i = 0, at i = n.Len() and inside n, with either balancer.
C12_InsertResult ==
    last.op = "Insert" =>
        \A old \in {String(heap, last.a)} : \A text \in {String(heap, last.b)} :
            /\ String(heap, last.res)
                  = SubSeq(old, 1, last.i) \o text
                        \o SubSeq(old, last.i + 1, Len(old))
            /\ NLen(heap, last.res) = NLen(heap, last.a) + Len(text)

\* C12 happens: a non-empty text was inserted strictly inside a Concat rope
C12_InsertedInside ==
    /\ last.op = "Insert"
    /\ IsConcat(heap, last.a)
    /\ 0 < last.i /\ last.i < NLen(heap, last.a)
    /\ NLen(heap, last.b) > 0
    /\ NLen(heap, last.res) > NLen(heap, last.a)

\* C13: Delete(n, start, end) materializes to n's content without the bytes
\* [start, end); deleting the whole range returns an empty leaf, and
\* deleting an empty range returns content equal to n's.
C13_DeleteResult ==
    last.op = "Delete" =>
        \A old \in {String(heap, last.a)} :
            /\ String(heap, last.res)
                  = SubSeq(old, 1, last.i) \o SubSeq(old, last.j + 1, Len(old))
            /\ (last.i = 0 /\ last.j = Len(old))
                  => IsLeaf(heap, last.res) /\ heap[last.res].val = <<>>
            /\ last.i = last.j => String(heap, last.res) = old

\* C13 happens: a Delete took bytes from both children of a Concat rope and
\* left some of each
C13_DeletedAcross ==
    /\ last.op = "Delete"
    /\ IsConcat(heap, last.a)
    /\ 0 < last.i /\ last.i < NLen(heap, heap[last.a].Left)
    /\ NLen(heap, heap[last.a].Left) < last.j
    /\ last.j < NLen(heap, last.a)
    /\ NLen(heap, last.res) = NLen(heap, last.a) - (last.j - last.i)

\* C14: out-of-range edits are fatal.  Insert(n, i, text) panics exactly
\* when i < 0 or i > n.Len(), and Delete(n, start, end) exactly when
\* start < 0, end > n.Len() or start > end; the call then returns no node
\* and the panic's diagnostic carries the offending index or range and the
\* valid range [0, n.Len()]; every in-range call returns a node.
C14_OutOfRangePanics ==
    /\ last.op = "Insert" =>
          \A len \in {NLen(heap, last.a)} :
              /\ last.res = Nil <=> (last.i < 0 \/ last.i > len)
              /\ last.res = Nil =>
                    last.res2 = <<"index out of bounds", last.i, 0, len>>
    /\ last.op = "Delete" =>
          \A len \in {NLen(heap, last.a)} :
              /\ last.res = Nil <=>
                    (last.i < 0 \/ last.j > len \/ last.i > last.j)
              /\ last.res = Nil =>
                    last.res2 = <<"index out of bounds or invalid range",
                                  last.i, last.j, 0, len>>

\* C14 happens: a Delete on a Concat rope with both ends inside the rope
\* but start > end panicked, and the program made no further call
C14_InvertedRangePanicked ==
    /\ last.op = "Delete"
    /\ IsConcat(heap, last.a)
    /\ last.res = Nil
    /\ 0 <= last.j /\ last.j < last.i /\ last.i <= NLen(heap, last.a)
    /\ steps = MaxSteps

\* C15: persistence.  No call of New, Join, Split, Slice, Insert or Delete
\* (nor NewConcat) changes a node that existed before it: every node keeps
\* its bytes, its cached length, depth and line count and its child
\* pointers, so every older version of a rope stays valid after any
\* sequence of later edits.
C15_NodesNeverChange ==
    [][/\ Len(heap') >= Len(heap)
       /\ \A n \in DOMAIN heap : heap'[n] = heap[n]]_vars

\* C15 happens: an Insert or Delete returned a new version with other
\* content than the version it was given, and the two share nodes
C15_OldVersionShared ==
    /\ last.op \in {"Insert", "Delete"}
    /\ last.res # last.a
    /\ String(heap, last.res) # String(heap, last.a)
    /\ IsConcat(heap, last.a)
    /\ Nodes(heap, last.res) \cap Nodes(heap, last.a) # {}

----------------------------------------------------------------------------
(* Node.Slice: properties *)

\* C11: Slice is correct on every node, Leaf or Concat, balanced or
\* hand-built: the result of the client's latest x.Slice(start, end)
\* materializes to exactly the bytes [start, end) of x's content, its Len is
\* end - start and its Lines the number of newline bytes among them; when
\* the range is the whole node, the result is the very same node.
C11_SliceCorrect ==
    last.op = "Slice" =>
        \A bytes \in {SubSeq(String(heap, last.a), last.i + 1, last.j)} :
            /\ String(heap, last.res) = bytes
            /\ NLen(heap, last.res) = last.j - last.i
            /\ Lines(heap, last.res) = CountNL(bytes)
            /\ (last.i = 0 /\ last.j = NLen(heap, last.a))
                  => last.res = last.a

\* C11 happens: a slice of a hand-built Concat spanned both children, cut
\* a leaf on each side, and holds fewer newlines than the source
C11_SpanningSlice ==
    /\ last.op = "Slice" /\ raw
    /\ IsConcat(heap, last.a)
    /\ 0 < last.i /\ last.i < NLen(heap, heap[last.a].Left)
    /\ NLen(heap, heap[last.a].Left) < last.j
    /\ last.res # last.a
    /\ 0 < Lines(heap, last.res)
    /\ Lines(heap, last.res) < Lines(heap, last.a)

\* every Concat at or below n has children whose depths differ by at most 1
AllBalanced(h, n) ==
    \A m \in Nodes(h, n) :
        IsConcat(h, m) =>
            /\ Depth(h, h[m].Left) - Depth(h, h[m].Right) <= 1
            /\ Depth(h, h[m].Right) - Depth(h, h[m].Left) <= 1

\* C20 as claimed: for any Concat tree, hand-built imbalanced trees
\* included, and any range, the node Slice returns is AVL-balanced.
C20_SliceBalanced ==
    (last.op = "Slice" /\ IsConcat(heap, last.a))
        => AllBalanced(heap, last.res)

\* C20 as amended: for any Concat tree that is AVL-balanced itself, built
\* by Join or by hand, and any range, the node Slice returns is
\* AVL-balanced.
C20_SliceOfBalancedIsBalanced ==
    (last.op = "Slice" /\ IsConcat(heap, last.a)
                       /\ AllBalanced(heap, last.a))
        => AllBalanced(heap, last.res)

\* C20 happens: a spanning slice of a balanced tree joined a short left
\* part with a deep right part, and the join ended in a double rotation:
\* the root and both its children are new Concat nodes
C20_SliceRotated ==
    /\ last.op = "Slice"
    /\ IsConcat(heap, last.a) /\ AllBalanced(heap, last.a)
    /\ 0 < last.i /\ last.i < NLen(heap, heap[last.a].Left)
    /\ NLen(heap, heap[last.a].Left) < last.j
    /\ IsConcat(heap, last.res)
    /\ IsConcat(heap, heap[last.res].Left)
    /\ IsConcat(heap, heap[last.res].Right)
    /\ {last.res, heap[last.res].Left, heap[last.res].Right}
           \cap Nodes(heap, last.a) = {}
    /\ Depth(heap, last.res) < Depth(heap, last.a)

----------------------------------------------------------------------------
(* Line/column index: properties *)

\* the client's latest call was OffsetToRowCol on a rope, with an offset
\* of that rope
AskedOffset ==
    /\ last.op = "OffsetToRowCol"
    /\ last.a # Nil
    /\ 0 <= last.i /\ last.i <= NLen(heap, last.a)

\* the client's latest call was RowColToOffset on a rope
AskedRowCol == last.op = "RowColToOffset" /\ last.a # Nil

\* C16: OffsetToRowCol is correct on any tree shape: for a rope n and
\* 0 <= offset <= n.Len() it returns the number of newline bytes before
\* offset in n's content as row, and the distance from the byte after the
\* last of them (from 0 if there is none) as col, also when the line began
\* in an earlier leaf.
C16_OffsetToRowColCorrect ==
    AskedOffset =>
        \A s \in {String(heap, last.a)} :
            /\ last.res = RowOf(s, last.i)
            /\ last.res2 = ColOf(s, last.i)

\* C16 happens: the offset lies in the right child of a Concat, on a line
\* that began in the left leaf of its left child and runs through the
\* whole right leaf of that child
C16_ContinuationAcrossLeaves ==
    /\ AskedOffset
    /\ IsConcat(heap, last.a)
    /\ IsConcat(heap, heap[last.a].Left)
    /\ last.i > NLen(heap, heap[last.a].Left)
    /\ Lines(heap, heap[heap[last.a].Left].Right) = 0
    /\ NLen(heap, heap[heap[last.a].Left].Right) > 0
    /\ last.res2 > last.i - NLen(heap, heap[heap[last.a].Left].Left)

\* C17 as claimed: RowColToOffset is correct on any tree shape: for a rope
\* n and every (row, col) that names a position of n's content, it returns
\* the offset of the col-th byte of the row-th line.
C17_RowColToOffsetCorrect ==
    AskedRowCol =>
        \A s \in {String(heap, last.a)} :
            (/\ 0 <= last.i /\ last.i <= CountNL(s)
             /\ 0 <= last.j /\ last.j <= LineLen(s, last.i))
                => last.res = LineStart(s, last.i) + last.j

\* C18 as claimed: index round trip: for every rope n the public
\* operations produce and every offset o in 0..n.Len(),
\* RowColToOffset(n, OffsetToRowCol(n, o)) = o.
C18_IndexRoundTrip ==
    (AskedOffset /\ Produced) =>
        RowColToOffset(heap, last.a, last.res, last.res2) = last.i

\* C19: the conversions report invalid input by their sentinel.
\* OffsetToRowCol returns (-1, -1) for the nil node, a negative offset and
\* an offset > n.Len(); RowColToOffset returns -1 for the nil node, a
\* negative row or col, a row > n.Lines() and a col beyond the length of
\* the row-th line.
C19_SentinelOnInvalid ==
    /\ last.op = "OffsetToRowCol" =>
          ((last.a = Nil \/ last.i < 0 \/ last.i > NLen(heap, last.a))
              => last.res = -1 /\ last.res2 = -1)
    /\ last.op = "RowColToOffset" =>
          ((\/ last.a = Nil
            \/ last.i < 0 \/ last.j < 0
            \/ last.i > Lines(heap, last.a)
            \/ last.j > LineLen(String(heap, last.a), last.i))
              => last.res = -1)

\* C19 happens: RowColToOffset returned -1 for the column one past the end
\* of a line of a Concat rope, and returns an offset for the column before
C19_ColumnPastLine ==
    /\ AskedRowCol
    /\ IsConcat(heap, last.a)
    /\ 0 <= last.i /\ last.i <= Lines(heap, last.a)
    /\ last.j = LineLen(String(heap, last.a), last.i) + 1
    /\ last.res = -1
    /\ RowColToOffset(heap, last.a, last.i, last.j - 1) >= 0

\* C30: RowColToOffset never returns a wrong position: whenever it returns
\* an offset o >= 0 for a rope n of any shape and a row and col, o is
\* within 0..n.Len() and OffsetToRowCol(n, o) is that row and col.
C30_RowColToOffsetSound ==
    (last.op = "RowColToOffset" /\ last.res >= 0) =>
        /\ last.a # Nil
        /\ last.res <= NLen(heap, last.a)
        /\ OffsetToRowCol(heap, last.a, last.res) = <<last.i, last.j>>

\* C30 happens: RowColToOffset returned an offset past the first line of a
\* Concat rope, and returns -1 for the column one past the end of the line
C30_OffsetInsideConcat ==
    /\ AskedRowCol
    /\ IsConcat(heap, last.a)
    /\ last.i >= 1
    /\ last.res > 0
    /\ last.j = LineLen(String(heap, last.a), last.i)
    /\ RowColToOffset(heap, last.a, last.i, last.j + 1) = -1

----------------------------------------------------------------------------
(* RopeHandle: writer goroutines call Set and Apply, a reader goroutine    *)
(* calls Root / Snapshot.  Each step below is one atomic step of the code: *)
(* mu.Lock, value.Load, the call of fn, value.Store, the deferred Unlock.  *)

\* the node and everything below it, field by field
RECURSIVE Tree(_, _)
Tree(h, n) ==
    IF IsLeaf(h, n) THEN [node |-> h[n]]
    ELSE [node  |-> h[n],
          left  |-> Tree(h, h[n].Left),
          right |-> Tree(h, h[n].Right)]

EditIdle ==
    /\ balancer = "avl" /\ x = Nil /\ y = Nil /\ raw = FALSE
    /\ last = Called("Init", Nil, Nil, 0, 0, Nil, Nil)
    /\ steps = 0

\* h := NewHandle(New(""))
NewHandle ==
    LET initial == NewLeaf(<<>>, TxtEmpty) IN
    /\ heap = initial.h
    /\ value = initial.n
    /\ stored = {initial.n}
    /\ mu = 0
    /\ pc = [w \in Writers |-> "idle"]
    /\ call = [w \in Writers |-> NoCall]
    /\ current = [w \in Writers |-> Nil]
    /\ newRoot = [w \in Writers |-> Nil]
    /\ done = [w \in Writers |-> 0]
    /\ snap = [r \in Readers |-> Nil]
    /\ snapRec = [r \in Readers |-> NoSnapshot]
    /\ writes = 0
    /\ failed = [w \in Writers |-> 0]
    /\ ParIdle

\* the fn of the tests: func(n Node) Node { return Join(n, New(t)) }
AppendFn(h, n, t) ==
    LET Joined(leaf) == AVLJoin(leaf.h, n, leaf.n)
    IN  Joined(NewLeaf(h, t))

\* a writer calls h.Apply(fn) with fn appending t
CallApply(w, t) ==
    /\ pc[w] = "idle"
    /\ call' = [call EXCEPT ![w] = [op |-> "Apply", text |-> t]]
    /\ pc' = [pc EXCEPT ![w] = "lock"]
    /\ writes' = writes + 1
    /\ UNCHANGED <<editVars, failed, parVars>>
    /\ UNCHANGED <<heap, value, mu, current, newRoot, done, snap, snapRec, stored>>

\* a writer calls h.Set(New(t)): the argument is built before the call
CallSet(w, t) ==
    LET Got(n) == /\ heap' = n.h
                  /\ newRoot' = [newRoot EXCEPT ![w] = n.n]
    IN  /\ pc[w] = "idle"
        /\ Got(NewLeaf(heap, t))
        /\ call' = [call EXCEPT ![w] = [op |-> "Set", text |-> t]]
        /\ pc' = [pc EXCEPT ![w] = "lock"]
        /\ writes' = writes + 1
        /\ UNCHANGED <<editVars, failed, parVars>>
        /\ UNCHANGED <<value, mu, current, done, snap, snapRec, stored>>

\* fault: Apply and Set without the mutex
LockNoWait(w) ==
    /\ pc[w] = "lock"
    /\ mu' = w
    /\ pc' = [pc EXCEPT ![w] = IF call[w].op = "Apply" THEN "load" ELSE "store"]
    /\ UNCHANGED <<editVars, failed, parVars>>
    /\ UNCHANGED <<heap, value, call, current, newRoot, done, snap, snapRec,
                   stored, writes>>

\* h.mu.Lock()
Lock(w) ==
    /\ pc[w] = "lock"
    /\ mu = 0
    /\ mu' = w
    /\ pc' = [pc EXCEPT ![w] = IF call[w].op = "Apply" THEN "load" ELSE "store"]
    /\ UNCHANGED <<editVars, failed, parVars>>
    /\ UNCHANGED <<heap, value, call, current, newRoot, done, snap, snapRec,
                   stored, writes>>

\* current := h.value.Load().(*container).root
Load(w) ==
    /\ pc[w] = "load"
    /\ current' = [current EXCEPT ![w] = value]
    /\ pc' = [pc EXCEPT ![w] = "fn"]
    /\ UNCHANGED <<editVars, failed, parVars>>
    /\ UNCHANGED <<heap, value, mu, call, newRoot, done, snap, snapRec,
                   stored, writes>>

\* newRoot := fn(current)
Fn(w) ==
    LET Got(r) == /\ heap' = r.h
                  /\ newRoot' = [newRoot EXCEPT ![w] = r.n]
    IN  /\ pc[w] = "fn"
        /\ Got(AppendFn(heap, current[w], call[w].text))
        /\ pc' = [pc EXCEPT ![w] = "store"]
        /\ UNCHANGED <<editVars, failed, parVars>>
        /\ UNCHANGED <<value, mu, call, current, done, snap, snapRec, stored, writes>>

\* h.value.Store(&container{root: newRoot})
Store(w) ==
    /\ pc[w] = "store"
    /\ value' = newRoot[w]
    /\ stored' = stored \cup {newRoot[w]}
    /\ pc' = [pc EXCEPT ![w] = "unlock"]
    /\ UNCHANGED <<editVars, failed, parVars>>
    /\ UNCHANGED <<heap, mu, call, current, newRoot, done, snap, snapRec, writes>>

\* fault: Set and Apply return without the deferred Unlock
UnlockForgotten(w) ==
    /\ pc[w] = "unlock"
    /\ pc' = [pc EXCEPT ![w] = "idle"]
    /\ done' = [done EXCEPT ![w] = done[w] + 1]
    /\ UNCHANGED <<editVars, failed, parVars>>
    /\ UNCHANGED <<heap, value, mu, call, current, newRoot, snap, snapRec,
                   stored, writes>>

\* the deferred h.mu.Unlock(), and the return
Unlock(w) ==
    /\ pc[w] = "unlock"
    /\ mu' = 0
    /\ pc' = [pc EXCEPT ![w] = "idle"]
    /\ done' = [done EXCEPT ![w] = done[w] + 1]
    /\ UNCHANGED <<editVars, failed, parVars>>
    /\ UNCHANGED <<heap, value, call, current, newRoot, snap, snapRec,
                   stored, writes>>

\* fault: a reader that takes the writers' mutex
RootLocked(r) ==
    /\ mu = 0
    /\ snap' = [snap EXCEPT ![r] = value]
    /\ snapRec' = [snapRec EXCEPT ![r] =
                     [tree |-> Tree(heap, value), stores |-> Cardinality(stored),
                      holder |-> mu, at |-> "free"]]
    /\ UNCHANGED <<editVars, failed, parVars>>
    /\ UNCHANGED <<heap, value, mu, pc, call, current, newRoot, done,
                   stored, writes>>

\* a reader calls h.Root() / h.Snapshot(): one atomic load
Root(r) ==
    /\ snap' = [snap EXCEPT ![r] = value]
    /\ snapRec' = [snapRec EXCEPT ![r] =
                     [tree |-> Tree(heap, value), stores |-> Cardinality(stored),
                      holder |-> mu, at |-> IF mu = 0 THEN "free" ELSE pc[mu]]]
    /\ UNCHANGED <<editVars, failed, parVars>>
    /\ UNCHANGED <<heap, value, mu, pc, call, current, newRoot, done,
                   stored, writes>>

\* the mixed scenario: writers call Set and Apply with any text
Init == EditIdle /\ NewHandle

HandleTexts == {TxtSmall, TxtBig}

Next ==
    \/ \E w \in Writers, t \in HandleTexts : writes < MaxWrites /\ CallApply(w, t)
    \/ \E w \in Writers, t \in HandleTexts : writes < MaxWrites /\ CallSet(w, t)
    \/ \E w \in Writers : Lock(w)
    \/ \E w \in Writers : Load(w)
    \/ \E w \in Writers : Fn(w)
    \/ \E w \in Writers : Store(w)
    \/ \E w \in Writers : Unlock(w)
    \/ \E r \in Readers : Root(r)

Spec == Init /\ [][Next]_vars

\* the append scenario of TestRopeHandle_Concurrency: every writer calls
\* h.Apply(func(n) { return Join(n, New("a")) }) WritesPerRunner times
TxtA == <<97>>

NextAppend ==
    \/ \E w \in Writers : done[w] < WritesPerRunner /\ CallApply(w, TxtA)
    \/ \E w \in Writers : Lock(w)
    \/ \E w \in Writers : Load(w)
    \/ \E w \in Writers : Fn(w)
    \/ \E w \in Writers : Store(w)
    \/ \E w \in Writers : Unlock(w)
    \/ \E r \in Readers : Root(r)

SpecAppend == Init /\ [][NextAppend]_vars

----------------------------------------------------------------------------
(* RopeHandle: properties *)

\* C1: writers are serialized and no update is lost.  A writer between
\* Lock and Unlock is the one holder of the mutex; while it runs fn and
\* until it stores, the root it loaded is still the stored one; so every
\* finished or stored Apply of the append scenario has added its one byte:
\* the root's length is the number of stores, its content is all 'a', and
\* once all Runners writers have made their WritesPerRunner calls the
\* length is Runners * WritesPerRunner.
C1_WritersSerialized ==
    LET RECURSIVE Finished(_)
        Finished(k) == IF k = 0 THEN 0 ELSE done[k] + Finished(k - 1)
        Storing == Cardinality({w \in Writers : pc[w] = "unlock"})
    IN
    /\ \A w \in Writers : pc[w] \in {"load", "fn", "store", "unlock"} => mu = w
    /\ \A w \in Writers : pc[w] \in {"fn", "store"} => current[w] = value
    /\ \A w \in Writers : pc[w] = "unlock" => value = newRoot[w]
    /\ NLen(heap, value) = Finished(Runners) + Storing
    /\ String(heap, value) = Fill(NLen(heap, value), 97)
    /\ (\A w \in Writers : done[w] = WritesPerRunner)
           => NLen(heap, value) = Runners * WritesPerRunner

\* C1 happens: all writers have returned from all their calls
C1_AllApplied ==
    /\ \A w \in Writers : done[w] = WritesPerRunner /\ pc[w] = "idle"
    /\ String(heap, value) = Fill(Runners * WritesPerRunner, 97)

\* C2: a node obtained from Root / Snapshot is unchanged, itself and
\* everything below it (content, length, depth, lines, children), whatever
\* Set and Apply do afterwards.
C2_SnapshotUnchanged ==
    \A r \in Readers :
        snap[r] # Nil => Tree(heap, snap[r]) = snapRec[r].tree

\* C2 happens: a reader holds a non-empty root, and a later Apply, whose fn
\* joined a leaf onto that very node, has stored a longer root
C2_WritesAfterSnapshot ==
    \E r \in Readers :
        /\ snap[r] # Nil
        /\ snap[r] # value
        /\ Cardinality(stored) > snapRec[r].stores
        /\ NLen(heap, value) > NLen(heap, snap[r])
        /\ NLen(heap, snap[r]) > 0

\* C3: readers never block.  Root is enabled in every state, whoever holds
\* the mutex and wherever the holder is, and what a reader got is always a
\* root that NewHandle, Set or a completed Apply has stored.
C3_ReadersNeverBlock ==
    /\ \A r \in Readers : ENABLED Root(r)
    /\ value \in stored
    /\ \A r \in Readers : snap[r] # Nil => snap[r] \in stored
    /\ \A w \in Writers :
          pc[w] = "store" /\ call[w].op = "Apply" => newRoot[w] \notin stored

\* C3 happens: a reader completed Root while a writer held the mutex and
\* was about to run fn, and got the root stored before that writer's store
C3_ReadDuringFn ==
    \E r \in Readers :
        /\ snap[r] # Nil
        /\ snapRec[r].holder # 0
        /\ snapRec[r].at = "fn"
        /\ pc[snapRec[r].holder] = "store"
        /\ snap[r] = value

----------------------------------------------------------------------------
(* RopeHandle.UnmarshalJSON: json.Unmarshal(data, &s) into a Go string,     *)
(* then h.Set(New(s)).  JSON texts are byte sequences; the decoder below    *)
(* covers texts without \u escapes and without bytes above 127.             *)

Quote     == 34
Backslash == 92

\* the JSON whitespace bytes: space, tab, line feed, carriage return
IsSpace(c) == c \in {32, 9, 10, 13}

\* data without the whitespace around its value
TrimSpace(data) ==
    LET keep == {i \in DOMAIN data : ~IsSpace(data[i])}
    IN  IF keep = {} THEN <<>>
        ELSE SubSeq(data, CHOOSE i \in keep : \A j \in keep : i <= j,
                          CHOOSE i \in keep : \A j \in keep : i >= j)

\* the byte a two-character escape stands for, 0 when it is no escape
Unescape(c) ==
    CASE c = 34  -> 34      \* \"
      [] c = 92  -> 92      \* \\
      [] c = 47  -> 47      \* \/
      [] c = 98  -> 8       \* \b
      [] c = 102 -> 12      \* \f
      [] c = 110 -> 10      \* \n
      [] c = 114 -> 13      \* \r
      [] c = 116 -> 9       \* \t
      [] OTHER   -> 0

\* the decoder's scan of a string literal t from position i, after the
\* opening quote: the closing quote must be the last byte of the value
RECURSIVE Unquote(_, _, _)
Unquote(t, i, acc) ==
    IF i > Len(t) THEN [ok |-> FALSE, s |-> <<>>]
    ELSE IF t[i] = Quote THEN [ok |-> i = Len(t), s |-> acc]
    ELSE IF t[i] = Backslash THEN
        IF i + 1 > Len(t) \/ Unescape(t[i + 1]) = 0
        THEN [ok |-> FALSE, s |-> <<>>]
        ELSE Unquote(t, i + 2, Append(acc, Unescape(t[i + 1])))
    ELSE IF t[i] < 32 THEN [ok |-> FALSE, s |-> <<>>]
    ELSE Unquote(t, i + 1, Append(acc, t[i]))

\* data is a JSON string: one string literal, whitespace around it allowed
IsJSONString(data) ==
    LET Literal(t) == /\ Len(t) >= 2
                      /\ t[1] = Quote
                      /\ Unquote(t, 2, <<>>).ok
    IN  Literal(TrimSpace(data))

\* the literal null
JSONNull == <<110, 117, 108, 108>>

\* var s string; err := json.Unmarshal(data, &s).  A JSON string decodes
\* into s; null has no effect on a string and is no error, so s stays "";
\* any other value, and any text that is not JSON, is an error.
Unmarshal(data) ==
    LET Decoded(t) ==
            IF IsJSONString(data) THEN [err |-> FALSE, s |-> Unquote(t, 2, <<>>).s]
            ELSE IF t = JSONNull THEN [err |-> FALSE, s |-> <<>>]
            ELSE [err |-> TRUE, s |-> <<>>]
    IN  Decoded(TrimSpace(data))

\* fault: no check of the decoder's error before the Set
CallUnmarshalJSONUnchecked(w, data) ==
    LET Got(n) == /\ heap' = n.h
                  /\ newRoot' = [newRoot EXCEPT ![w] = n.n]
    IN  /\ pc[w] = "idle"
        /\ call' = [call EXCEPT ![w] = [op |-> "UnmarshalJSON", text |-> data]]
        /\ writes' = writes + 1
        /\ Got(NewLeaf(heap, Unmarshal(data).s))
        /\ pc' = [pc EXCEPT ![w] = "lock"]
        /\ UNCHANGED <<editVars, parVars>>
        /\ UNCHANGED <<value, mu, current, done, snap, snapRec, stored, failed>>

\* a writer calls h.UnmarshalJSON(data): on a decoding error it returns the
\* error; otherwise it builds New(s) and goes on to Set
CallUnmarshalJSON(w, data) ==
    LET Got(n) == /\ heap' = n.h
                  /\ newRoot' = [newRoot EXCEPT ![w] = n.n]
        Decoded(r) ==
            IF r.err
            THEN /\ failed' = [failed EXCEPT ![w] = failed[w] + 1]
                 /\ UNCHANGED <<heap, newRoot, pc>>
            ELSE /\ Got(NewLeaf(heap, r.s))
                 /\ pc' = [pc EXCEPT ![w] = "lock"]
                 /\ UNCHANGED failed
    IN  /\ pc[w] = "idle"
        /\ call' = [call EXCEPT ![w] = [op |-> "UnmarshalJSON", text |-> data]]
        /\ writes' = writes + 1
        /\ Decoded(Unmarshal(data))
        /\ UNCHANGED <<editVars, parVars>>
        /\ UNCHANGED <<value, mu, current, done, snap, snapRec, stored>>

\* the texts handed to UnmarshalJSON: strings, plain and with escapes and
\* surrounding whitespace; null; a number; an object; malformed texts
JSONInputs ==
    { <<34, 97, 34>>,                   \* "a"
      <<34, 34>>,                       \* ""
      <<34, 97, 92, 110, 34>>,          \* "a\n"
      <<34, 92, 34, 92, 92, 34>>,       \* "\"\\"
      <<32, 34, 97, 34, 10>>,           \* "a" between whitespace
      JSONNull,                         \* null
      <<49>>,                           \* 1
      <<123, 125>>,                     \* {}
      <<>>,                             \* no text at all
      <<97>>,                           \* a
      <<34, 97>>,                       \* "a      (no closing quote)
      <<34, 97, 34, 97>>,               \* "a"a    (text after the value)
      <<34, 92, 97, 34>>,               \* "\a"    (no such escape)
      <<34, 97, 10, 34>> }              \* a raw line feed inside the literal

\* the decoding scenario: writers call UnmarshalJSON with any of the texts,
\* and Apply with the appending fn
NextJSON ==
    \/ \E w \in Writers, data \in JSONInputs :
          writes < MaxWrites /\ CallUnmarshalJSON(w, data)
    \/ \E w \in Writers : writes < MaxWrites /\ CallApply(w, TxtA)
    \/ \E w \in Writers : Lock(w)
    \/ \E w \in Writers : Load(w)
    \/ \E w \in Writers : Fn(w)
    \/ \E w \in Writers : Store(w)
    \/ \E w \in Writers : Unlock(w)

SpecJSON == Init /\ [][NextJSON]_vars

----------------------------------------------------------------------------
(* RopeHandle.UnmarshalJSON: properties *)

\* writer w is inside an UnmarshalJSON call that went on to Set
Decoding(w) == pc[w] # "idle" /\ call[w].op = "UnmarshalJSON"

\* this step is writer w calling UnmarshalJSON
DecodeCall(w) ==
    /\ pc[w] = "idle"
    /\ writes' = writes + 1
    /\ pc'[w] # "idle" \/ failed'[w] # failed[w]
    /\ call'[w].op = "UnmarshalJSON"

\* this step is writer w returning an error from UnmarshalJSON with the
\* handle untouched: no root stored, the mutex not taken
DecodeError(w) ==
    /\ failed'[w] = failed[w] + 1
    /\ pc'[w] = "idle"
    /\ value' = value /\ stored' = stored /\ mu' = mu

\* a call that goes on to Set carries a fresh single Leaf holding the
\* decoded string, and that leaf is the root once the call has stored
DecodedLeafStored ==
    \A w \in Writers :
        Decoding(w) =>
            /\ IsLeaf(heap, newRoot[w])
            /\ String(heap, newRoot[w]) = Unmarshal(call[w].text).s
            /\ pc[w] \in {"lock", "store"} =>
                  /\ newRoot[w] \notin stored
                  /\ \A v \in Writers \ {w} : newRoot[v] # newRoot[w]
            /\ pc[w] = "unlock" => value = newRoot[w]

\* C21 as stated: UnmarshalJSON of data that does not parse as a JSON
\* string returns an error and leaves the root as it is (no Set); on
\* success the root is replaced by a fresh single leaf holding the decoded
\* string.
C21_UnmarshalJSON ==
    /\ []DecodedLeafStored
    /\ [][\A w \in Writers :
            DecodeCall(w) /\ ~IsJSONString(call'[w].text) => DecodeError(w)]_vars

\* C21: UnmarshalJSON of data that is neither a JSON string nor the literal
\* null returns an error and leaves the root as it is (no Set); on success
\* the root is replaced by a fresh single leaf holding the decoded string,
\* which for null is the empty string.
C21_UnmarshalJSONExceptNull ==
    /\ []DecodedLeafStored
    /\ [][\A w \in Writers :
            /\ DecodeCall(w) /\ ~IsJSONString(call'[w].text)
                             /\ TrimSpace(call'[w].text) # JSONNull
                  => DecodeError(w)
            /\ DecodeCall(w) /\ TrimSpace(call'[w].text) = JSONNull
                  => /\ pc'[w] = "lock"
                     /\ String(heap', newRoot'[w]) = <<>>]_vars

\* C21 happens: one writer's UnmarshalJSON failed on a text that is not
\* JSON, and another's decoded a string with an escape and has stored the
\* leaf holding it
C21_DecodedAfterError ==
    \E w \in Writers, v \in Writers :
        /\ w # v
        /\ failed[v] = 1 /\ pc[v] = "idle"
        /\ ~IsJSONString(call[v].text) /\ TrimSpace(call[v].text) # JSONNull
        /\ Decoding(w) /\ pc[w] = "unlock"
        /\ call[w].text = <<34, 97, 92, 110, 34>>
        /\ String(heap, value) = <<97, NL>>

----------------------------------------------------------------------------
(* RopeHandle: progress of the writers *)

\* a goroutine that is inside Set or Apply keeps running: a runnable
\* goroutine is scheduled, fn returns, and sync.Mutex hands the lock to a
\* goroutine that keeps waiting for it (its starvation mode), so a waiter
\* is not passed over for ever.  Each of these steps moves the writer's
\* pc, so pc is the subscript.
WritersRun ==
    \A w \in Writers :
        /\ SF_pc(Lock(w))
        /\ WF_pc(Load(w))
        /\ WF_pc(Fn(w))
        /\ WF_pc(Store(w))
        /\ WF_pc(Unlock(w))

\* writers call Set and Apply with the text of the append scenario, a
\* reader calls Root
NextFair ==
    \/ \E w \in Writers : writes < MaxWrites /\ CallApply(w, TxtA)
    \/ \E w \in Writers : writes < MaxWrites /\ CallSet(w, TxtA)
    \/ \E w \in Writers : Lock(w)
    \/ \E w \in Writers : Load(w)
    \/ \E w \in Writers : Fn(w)
    \/ \E w \in Writers : Store(w)
    \/ \E w \in Writers : Unlock(w)
    \/ \E r \in Readers : Root(r)

\* that scenario under fair scheduling
SpecFair == Init /\ [][NextFair]_vars /\ WritersRun

\* the mutex is the only place where a handle operation can wait: a writer
\* past Lock can take its next step, a writer at Lock can when the mutex is
\* free, a reader always can
OnlyLockWaits ==
    /\ \A w \in Writers :
          /\ pc[w] = "lock" /\ mu = 0 => ENABLED Lock(w)
          /\ pc[w] = "load"   => ENABLED Load(w)
          /\ pc[w] = "fn"     => ENABLED Fn(w)
          /\ pc[w] = "store"  => ENABLED Store(w)
          /\ pc[w] = "unlock" => ENABLED Unlock(w)
    /\ \A r \in Readers : ENABLED Root(r)

\* some call in progress can take a step
NoDeadlock ==
    (\E w \in Writers : pc[w] # "idle")
        => \E w \in Writers : pc[w] # "idle" /\ (pc[w] = "lock" => mu = 0)

\* C22: under fair scheduling and with fn returning, every Set and Apply
\* call waiting at Lock comes to hold the mutex, then has stored its root
\* while holding it, then has released the mutex and returned; only Lock
\* can wait, and the calls in progress never deadlock.
C22_WriterProgress ==
    /\ \A w \in Writers : (pc[w] = "lock") ~> (mu = w)
    /\ \A w \in Writers :
          (pc[w] = "lock") ~> (pc[w] = "unlock" /\ mu = w /\ value = newRoot[w])
    /\ \A w \in Writers : (pc[w] = "unlock") ~> (pc[w] = "idle" /\ mu # w)
    /\ []OnlyLockWaits
    /\ []NoDeadlock

\* C22 happens: a Set call waits at Lock while an Apply call holds the
\* mutex and is about to run fn
C22_WaitingForMutex ==
    \E w \in Writers, v \in Writers :
        /\ pc[w] = "lock" /\ call[w].op = "Set"
        /\ pc[v] = "fn" /\ mu = v

----------------------------------------------------------------------------
(* RopeHandle.Apply with an fn that panics.  fn is the caller's code: any   *)
(* invocation may panic instead of returning.  The panic unwinds Apply,     *)
(* running its deferred Unlock, and the caller recovers.                    *)

\* newRoot := fn(current) panics: Apply stops there, no Store
FnPanics(w) ==
    /\ pc[w] = "fn"
    /\ pc' = [pc EXCEPT ![w] = "panic"]
    /\ UNCHANGED <<editVars, failed, parVars>>
    /\ UNCHANGED <<heap, value, mu, call, current, newRoot, done, snap, snapRec,
                   stored, writes>>

\* fault: Unlock as a plain last statement of Apply, which a panic skips
UnlockSkipped(w) ==
    /\ pc[w] = "panic"
    /\ pc' = [pc EXCEPT ![w] = "idle"]
    /\ failed' = [failed EXCEPT ![w] = failed[w] + 1]
    /\ UNCHANGED <<editVars, parVars>>
    /\ UNCHANGED <<heap, value, mu, call, current, newRoot, done, snap, snapRec,
                   stored, writes>>

\* the deferred h.mu.Unlock() runs while the panic unwinds, and the panic
\* reaches the caller of Apply
UnlockOnPanic(w) ==
    /\ pc[w] = "panic"
    /\ mu' = 0
    /\ pc' = [pc EXCEPT ![w] = "idle"]
    /\ failed' = [failed EXCEPT ![w] = failed[w] + 1]
    /\ UNCHANGED <<editVars, parVars>>
    /\ UNCHANGED <<heap, value, call, current, newRoot, done, snap, snapRec,
                   stored, writes>>

\* the scenario of NextFair, with fn free to panic
NextPanic ==
    \/ \E w \in Writers : writes < MaxWrites /\ CallApply(w, TxtA)
    \/ \E w \in Writers : writes < MaxWrites /\ CallSet(w, TxtA)
    \/ \E w \in Writers : Lock(w)
    \/ \E w \in Writers : Load(w)
    \/ \E w \in Writers : Fn(w)
    \/ \E w \in Writers : FnPanics(w)
    \/ \E w \in Writers : UnlockOnPanic(w)
    \/ \E w \in Writers : Store(w)
    \/ \E w \in Writers : Unlock(w)
    \/ \E r \in Readers : Root(r)

\* fair scheduling as in WritersRun; whether fn returns or panics, the
\* writer leaves fn
SpecPanic ==
    /\ Init /\ [][NextPanic]_vars
    /\ WritersRun
    /\ \A w \in Writers : WF_pc(UnlockOnPanic(w))

\* C29: when the fn of an Apply panics, the root is the one fn was given
\* until the panic has left Apply (no Store), and the deferred Unlock then
\* frees the mutex with the root still that one; Root stays possible at
\* every moment, and every Set and Apply waiting after a panic gets the
\* mutex and returns.
C29_PanicLeavesHandleUsable ==
    /\ [](\A w \in Writers :
            pc[w] = "panic" => mu = w /\ value = current[w] /\ value \in stored)
    /\ [][\A w \in Writers :
            failed'[w] # failed[w]
                => /\ value' = current[w] /\ stored' = stored
                   /\ mu = w /\ mu' = 0]_vars
    /\ [](\A r \in Readers : ENABLED Root(r))
    /\ \A v \in Writers :
          (pc[v] = "lock" /\ \E w \in Writers : failed[w] > 0)
              ~> (pc[v] = "idle" /\ mu # v)

\* C29 happens: a writer's fn panicked while the root was still the empty
\* one, and afterwards another writer's Apply stored a longer root and
\* returned
C29_ApplyAfterPanic ==
    \E w \in Writers, v \in Writers :
        /\ w # v
        /\ failed[w] = 1 /\ pc[w] = "idle"
        /\ current[w] # Nil /\ NLen(heap, current[w]) = 0
        /\ done[v] = 1 /\ pc[v] = "idle" /\ call[v].op = "Apply"
        /\ value = newRoot[v] /\ NLen(heap, value) > 0

----------------------------------------------------------------------------
(* ParForEach: the calling goroutine starts the workers, sends every leaf   *)
(* string of n into the buffered channel `jobs`, closes it and waits for    *)
(* the WaitGroup; each worker ranges over `jobs` and calls fn.              *)

NumCPU     == 1    \* runtime.NumCPU() of the machine
MaxWorkers == 2    \* largest workers argument
ParLeaves  == 5    \* leaves of the largest rope iterated

\* n.EachLeaf(fn): the strings fn is called with, leaf by leaf in order
RECURSIVE EachLeaf(_, _)
EachLeaf(h, n) ==
    IF IsLeaf(h, n) THEN <<h[n].val>>
    ELSE EachLeaf(h, h[n].Left) \o EachLeaf(h, h[n].Right)

\* the ropes iterated: empty, one coalesced leaf, and ropes of up to
\* ParLeaves leaves of 129 bytes, every leaf with a byte of its own
ParSeeds ==
    {<<TxtEmpty>>, <<TxtSmall, TxtSmall>>}
    \cup {[i \in 1..k |-> Fill(129, 96 + i)] : k \in {1, ParLeaves - 2, ParLeaves}}

\* x is nil or a rope built from leaves by Join
InitPar ==
    /\ balancer \in Balancers
    /\ \/ heap = <<>> /\ x = Nil
       \/ \E ts \in ParSeeds :
             LET Held1(bx) == heap = bx.h /\ x = bx.n
             IN  Held1(Build(balancer, <<>>, ts, Len(ts)))
    /\ y = Nil /\ raw = FALSE
    /\ last = Called("Init", Nil, Nil, 0, 0, Nil, Nil)
    /\ steps = 0
    /\ HandleIdle

\* ParForEach(n, workers, fn) up to the first send: workers <= 0 becomes
\* NumCPU, the channel is made, the workers are started, and traverse
\* returns at once for a nil or empty n
CallParForEach(n, workers) ==
    LET Started(k) ==
            /\ wpc' = [i \in 1..k |-> "recv"]
            /\ got' = [i \in 1..k |-> <<>>]
            /\ wg' = k
    IN  /\ ppc = "idle"
        /\ parCall' = [n |-> n, workers |-> workers]
        /\ Started(IF workers <= 0 THEN NumCPU ELSE workers)
        /\ jobs' = <<>> /\ closed' = FALSE /\ calls' = <<>>
        /\ todo' = IF n = Nil \/ NLen(heap, n) = 0 THEN <<>> ELSE EachLeaf(heap, n)
        /\ ppc' = "traverse"
        /\ UNCHANGED <<heap, editVars, handleVars>>

\* jobs <- s: blocks while the channel holds workers*2 strings
Send ==
    /\ ppc = "traverse"
    /\ todo # <<>>
    /\ Len(jobs) < Len(wpc) * 2
    /\ jobs' = Append(jobs, Head(todo))
    /\ todo' = Tail(todo)
    /\ UNCHANGED <<heap, editVars, handleVars>>
    /\ UNCHANGED <<parCall, ppc, closed, wg, wpc, got, calls>>

\* traverse has returned: close(jobs)
Close ==
    /\ ppc = "traverse"
    /\ todo = <<>>
    /\ closed' = TRUE
    /\ ppc' = "wait"
    /\ UNCHANGED <<heap, editVars, handleVars>>
    /\ UNCHANGED <<parCall, todo, jobs, wg, wpc, got, calls>>

\* fault: a worker that takes the newest string of the channel
RecvNewest(i) ==
    /\ wpc[i] = "recv"
    /\ jobs # <<>>
    /\ got' = [got EXCEPT ![i] = jobs[Len(jobs)]]
    /\ jobs' = SubSeq(jobs, 1, Len(jobs) - 1)
    /\ wpc' = [wpc EXCEPT ![i] = "fn"]
    /\ UNCHANGED <<heap, editVars, handleVars>>
    /\ UNCHANGED <<parCall, ppc, todo, closed, wg, calls>>

\* for s := range jobs: a worker receives the oldest string of the channel
Recv(i) ==
    /\ wpc[i] = "recv"
    /\ jobs # <<>>
    /\ got' = [got EXCEPT ![i] = Head(jobs)]
    /\ jobs' = Tail(jobs)
    /\ wpc' = [wpc EXCEPT ![i] = "fn"]
    /\ UNCHANGED <<heap, editVars, handleVars>>
    /\ UNCHANGED <<parCall, ppc, todo, closed, wg, calls>>

\* fn(s)
RunFn(i) ==
    /\ wpc[i] = "fn"
    /\ calls' = Append(calls, got[i])
    /\ wpc' = [wpc EXCEPT ![i] = "recv"]
    /\ UNCHANGED <<heap, editVars, handleVars>>
    /\ UNCHANGED <<parCall, ppc, todo, jobs, closed, wg, got>>

\* the range loop ends when the channel is closed and empty: wg.Done()
WorkerDone(i) ==
    /\ wpc[i] = "recv"
    /\ jobs = <<>> /\ closed
    /\ wpc' = [wpc EXCEPT ![i] = "done"]
    /\ wg' = wg - 1
    /\ UNCHANGED <<heap, editVars, handleVars>>
    /\ UNCHANGED <<parCall, ppc, todo, jobs, closed, got, calls>>

\* fault: ParForEach returns after close(jobs) without wg.Wait()
ReturnNoWait ==
    /\ ppc = "wait"
    /\ ppc' = "done"
    /\ UNCHANGED <<heap, editVars, handleVars>>
    /\ UNCHANGED <<parCall, todo, jobs, closed, wg, wpc, got, calls>>

\* wg.Wait() returns when every worker has called Done; ParForEach returns
Return ==
    /\ ppc = "wait"
    /\ wg = 0
    /\ ppc' = "done"
    /\ UNCHANGED <<heap, editVars, handleVars>>
    /\ UNCHANGED <<parCall, todo, jobs, closed, wg, wpc, got, calls>>

NextPar ==
    \/ \E n \in {x, Nil}, workers \in -1..MaxWorkers : CallParForEach(n, workers)
    \/ Send
    \/ Close
    \/ \E i \in DOMAIN wpc : Recv(i)
    \/ \E i \in DOMAIN wpc : RunFn(i)
    \/ \E i \in DOMAIN wpc : WorkerDone(i)
    \/ Return

SpecPar == InitPar /\ [][NextPar]_vars

----------------------------------------------------------------------------
(* ParForEach: properties *)

\* how often s is an element of the sequence q
Times(q, s) == Cardinality({i \in DOMAIN q : q[i] = s})

\* the leaf strings of the n given to ParForEach
LeavesOf(n) == IF n = Nil THEN <<>> ELSE EachLeaf(heap, n)

RECURSIVE Flatten(_)
Flatten(q) == IF q = <<>> THEN <<>> ELSE Head(q) \o Flatten(Tail(q))

\* C23: ParForEach runs as many workers as asked (NumCPU when workers <= 0),
\* the channel never holds more than workers*2 strings, and some goroutine
\* can always take a step until ParForEach has returned, also when the
\* leaves outnumber the channel's capacity.  When it returns, the producer
\* has sent every leaf and closed the channel, the channel is drained,
\* every worker has finished, and fn was invoked exactly once per leaf
\* string of n's in-order traversal, so the lengths add up to n.Len(); for
\* a nil or empty n fn was not invoked at all.
C23_ParForEachDelivers ==
    LET n == parCall.n
        k == IF parCall.workers <= 0 THEN NumCPU ELSE parCall.workers
        Running == \/ ENABLED Send \/ ENABLED Close \/ ENABLED Return
                   \/ \E i \in DOMAIN wpc :
                         ENABLED Recv(i) \/ ENABLED RunFn(i) \/ ENABLED WorkerDone(i)
    IN
    /\ ppc # "idle" => Len(wpc) = k /\ k >= 1
    /\ Len(jobs) <= Len(wpc) * 2
    /\ ppc \in {"traverse", "wait"} => Running
    /\ ppc = "done" =>
          /\ todo = <<>> /\ closed /\ jobs = <<>> /\ wg = 0
          /\ \A i \in DOMAIN wpc : wpc[i] = "done"
          /\ IF n = Nil \/ NLen(heap, n) = 0 THEN calls = <<>>
             ELSE /\ Len(calls) = Len(LeavesOf(n))
                  /\ \A i \in DOMAIN calls :
                        Times(calls, calls[i]) = Times(LeavesOf(n), calls[i])
                  /\ Len(Flatten(calls)) = NLen(heap, n)

\* C23 happens: ParForEach has returned from a rope of more leaves than the
\* channel's capacity, iterated by more than one worker
C23_MoreLeavesThanCapacity ==
    /\ ppc = "done"
    /\ Len(wpc) > 1
    /\ parCall.n # Nil
    /\ Len(LeavesOf(parCall.n)) > Len(wpc) * 2
    /\ Len(calls) = Len(LeavesOf(parCall.n))

\* C24: with exactly one worker the callbacks come in the in-order leaf
\* order: at every moment the arguments so far are the first leaves of n,
\* and once ParForEach has returned their concatenation in invocation
\* order is the content of n.
C24_OneWorkerInOrder ==
    (ppc # "idle" /\ Len(wpc) = 1) =>
        /\ Len(calls) <= Len(LeavesOf(parCall.n))
        /\ calls = SubSeq(LeavesOf(parCall.n), 1, Len(calls))
        /\ ppc = "done" /\ parCall.n # Nil
              => Flatten(calls) = String(heap, parCall.n)

\* C24 happens: one worker has made the callbacks for a rope of more leaves
\* than the channel's capacity, and ParForEach has returned
C24_OneWorkerFinished ==
    /\ ppc = "done"
    /\ Len(wpc) = 1
    /\ Len(calls) > 2
    /\ Flatten(calls) = String(heap, parCall.n)

----------------------------------------------------------------------------
(* Balancer shapes: the client builds two trees by hand with NewConcat, in  *)
(* every shape, and joins them once or twice with its balancer.             *)

ShapeLeaves == 4    \* leaves of the largest hand-built tree

\* every tree NewConcat can make of leaves holding the texts ts, in order
RECURSIVE Trees(_, _)
Trees(h, ts) ==
    IF Len(ts) = 1 THEN {NewLeaf(h, ts[1])}
    ELSE UNION { UNION { { NewConcat(r.h, l.n, r.n) :
                            r \in Trees(l.h, SubSeq(ts, i + 1, Len(ts))) } :
                         l \in Trees(h, SubSeq(ts, 1, i)) } :
                 i \in 1..(Len(ts) - 1) }

\* the leaf texts of a tree: one empty leaf, or up to k leaves that are all
\* one byte long or all 150 bytes long, each filled with a byte of its own
\* (c + 1, c + 2, ...)
ShapeTexts(k, c) ==
    {<<TxtEmpty>>}
    \cup {[i \in 1..j |-> Fill(size, c + i)] : j \in 1..k, size \in {1, 150}}

\* x and y are hand-built trees that share no node
InitShape ==
    /\ balancer \in Balancers
    /\ \E tx \in ShapeTexts(ShapeLeaves, 96), ty \in ShapeTexts(ShapeLeaves - 1, 64) :
          \E bx \in Trees(<<>>, tx) :
              \E by \in Trees(bx.h, ty) :
                  heap = by.h /\ x = bx.n /\ y = by.n
    /\ raw = TRUE
    /\ last = Called("Init", Nil, Nil, 0, 0, Nil, Nil)
    /\ steps = 0
    /\ HandleIdle

NextShape ==
    \/ DoJoin
    \/ DoJoinFront

SpecShape == InitShape /\ [][NextShape]_vars

----------------------------------------------------------------------------
(* Balancer shapes: properties *)

\* a leaf too large to coalesce with another such leaf
BigLeaf(n) == IsLeaf(heap, n) /\ 2 * NLen(heap, n) > MaxLeafMergeSize

\* n is NewConcat(NewConcat(a, b), NewConcat(c, d)) of these very nodes
IsPairOfPairs(n, a, b, c, d) ==
    /\ IsConcat(heap, n)
    /\ IsConcat(heap, heap[n].Left) /\ IsConcat(heap, heap[n].Right)
    /\ heap[heap[n].Left].Left = a /\ heap[heap[n].Left].Right = b
    /\ heap[heap[n].Right].Left = c /\ heap[heap[n].Right].Right = d

\* the left operand is Concat(LL, Concat(LRL, LRR)), the right a leaf
LeftRightHeavy(l, r) ==
    /\ IsConcat(heap, l) /\ BigLeaf(heap[l].Left)
    /\ IsConcat(heap, heap[l].Right)
    /\ BigLeaf(heap[heap[l].Right].Left) /\ BigLeaf(heap[heap[l].Right].Right)
    /\ BigLeaf(r)

\* the right operand is Concat(Concat(RLL, RLR), RR), the left a leaf
RightLeftHeavy(l, r) ==
    /\ BigLeaf(l)
    /\ IsConcat(heap, r) /\ BigLeaf(heap[r].Right)
    /\ IsConcat(heap, heap[r].Left)
    /\ BigLeaf(heap[heap[r].Left].Left) /\ BigLeaf(heap[heap[r].Left].Right)

\* C25: with leaves too large to coalesce, the AVL Join of
\* Concat(LL, Concat(LRL, LRR)) and a leaf R returns a root of depth 2 of
\* shape ((LL, LRL), (LRR, R)), and the Join of a leaf L and
\* Concat(Concat(RLL, RLR), RR) returns a root of depth 2 of shape
\* ((L, RLL), (RLR, RR)); the leaves are the operands' own, in their order.
C25_DoubleRotationShape ==
    LET l == last.a
        r == last.b
        n == last.res
    IN  (last.op = "Join" /\ balancer = "avl") =>
        /\ LeftRightHeavy(l, r) =>
              /\ Depth(heap, n) = 2
              /\ IsPairOfPairs(n, heap[l].Left, heap[heap[l].Right].Left,
                                  heap[heap[l].Right].Right, r)
              /\ String(heap, n) = String(heap, l) \o String(heap, r)
        /\ RightLeftHeavy(l, r) =>
              /\ Depth(heap, n) = 2
              /\ IsPairOfPairs(n, l, heap[heap[r].Left].Left,
                                  heap[heap[r].Left].Right, heap[r].Right)
              /\ String(heap, n) = String(heap, l) \o String(heap, r)

\* C25 happens: the AVL balancer has joined Concat(LL, Concat(LRL, LRR))
\* with a leaf, all four leaves 150 bytes long
C25_LeftRightJoined ==
    /\ last.op = "Join" /\ balancer = "avl"
    /\ LeftRightHeavy(last.a, last.b)
    /\ NLen(heap, last.res) = 600
    /\ Depth(heap, last.a) = 2


\* the Fibonacci numbers: Fib(0) = 0, Fib(1) = 1
RECURSIVE Fib(_)
Fib(k) == IF k < 2 THEN k ELSE Fib(k - 1) + Fib(k - 2)

\* Join(l, r) has two non-empty operands that TryMergeLeaves leaves apart
Uncoalesced(l, r) ==
    /\ NLen(heap, l) > 0 /\ NLen(heap, r) > 0
    /\ ~(/\ IsLeaf(heap, l) /\ IsLeaf(heap, r)
         /\ NLen(heap, l) + NLen(heap, r) <= MaxLeafMergeSize)

\* c = Concat(l, r) passes the check: depth(c) + 2 < len(fib) and
\* length(c) >= fib[depth(c) + 2]
DeepEnough(l, r) ==
    LET d == 1 + Max(Depth(heap, l), Depth(heap, r))
    IN  /\ d + 2 < Len(fibs)
        /\ NLen(heap, l) + NLen(heap, r) >= Fib(d + 2)

\* C26: the Fibonacci Join of two non-empty operands that are not
\* coalescible, with c = Concat(l, r) passing the check, returns a Concat
\* whose Left is l itself and whose Right is r itself, whatever the depths
\* of l and r; so a result that is anything else comes from a failed check.
C26_FibonacciLazy ==
    (last.op = "Join" /\ balancer = "fib") =>
        (Uncoalesced(last.a, last.b) /\ DeepEnough(last.a, last.b)
            => /\ IsConcat(heap, last.res)
               /\ heap[last.res].Left = last.a
               /\ heap[last.res].Right = last.b)

\* C26 happens: the Fibonacci balancer has joined a tree of depth 3 and a
\* leaf without rebuilding
C26_JoinedUnevenOperands ==
    /\ last.op = "Join" /\ balancer = "fib"
    /\ Uncoalesced(last.a, last.b) /\ DeepEnough(last.a, last.b)
    /\ Depth(heap, last.a) = 3 /\ Depth(heap, last.b) = 0
    /\ Depth(heap, last.res) = 4


\* C27: for both balancers, the Join of a node with an empty node is that
\* very node, and the Join of an empty node with a node (empty or not) is
\* the right one; the call allocates nothing, and an empty operand joined
\* with a non-empty one is no node of the result.
C27_EmptyOperandShortcut ==
    [][LET l == last'.a
           r == last'.b
           n == last'.res
       IN  (last'.op = "Join" /\ last' # last) =>
           /\ NLen(heap, l) = 0 => n = r /\ heap' = heap
           /\ NLen(heap, l) > 0 /\ NLen(heap, r) = 0 => n = l /\ heap' = heap
           /\ NLen(heap, l) = 0 /\ NLen(heap, r) > 0 => l \notin Nodes(heap', n)
           /\ NLen(heap, l) > 0 /\ NLen(heap, r) = 0 => r \notin Nodes(heap', n)
      ]_vars

\* C27 happens: the AVL balancer has joined a Concat with an empty leaf
C27_JoinedWithEmpty ==
    /\ last.op = "Join" /\ balancer = "avl"
    /\ IsConcat(heap, last.a)
    /\ NLen(heap, last.b) = 0
    /\ last.res = last.a

\* the least d with 2^d >= k
CeilLog2(k) == CHOOSE d \in 0..k : 2^d >= k /\ \A e \in 0..(d - 1) : 2^e < k

\* every Concat of n has the first half of its leaves, rounded down, on
\* the left
RECURSIVE SplitAtMidpoint(_, _)
SplitAtMidpoint(h, n) ==
    \/ IsLeaf(h, n)
    \/ /\ Len(collectLeaves(h, h[n].Left)) = Len(collectLeaves(h, n)) \div 2
       /\ SplitAtMidpoint(h, h[n].Left)
       /\ SplitAtMidpoint(h, h[n].Right)

\* C28: when the Fibonacci Join rebuilds (two non-empty operands, not
\* coalescible, Concat(l, r) failing the check), the result holds the leaf
\* nodes of l followed by those of r, the same nodes in the same order,
\* split at the midpoint at every Concat; with k leaves its depth is
\* ceil(log2(k)), and the child depths of every Concat differ by at most 1.
C28_RebuildShape ==
    LET l == last.a
        r == last.b
        n == last.res
    IN  (/\ last.op = "Join" /\ balancer = "fib"
         /\ Uncoalesced(l, r) /\ ~DeepEnough(l, r)) =>
            /\ collectLeaves(heap, n) = collectLeaves(heap, l) \o collectLeaves(heap, r)
            /\ SplitAtMidpoint(heap, n)
            /\ Depth(heap, n) = CeilLog2(Len(collectLeaves(heap, n)))
            /\ AllBalanced(heap, n)

\* C28 happens: the Fibonacci balancer has rebuilt a chain of four one-byte
\* leaves joined with a fifth into a tree of depth 3
C28_RebuiltFiveLeaves ==
    /\ last.op = "Join" /\ balancer = "fib"
    /\ Uncoalesced(last.a, last.b) /\ ~DeepEnough(last.a, last.b)
    /\ Depth(heap, last.a) = 3 /\ IsLeaf(heap, last.b)
    /\ Len(collectLeaves(heap, last.res)) = 5
    /\ Depth(heap, last.res) = 3

====
